---- MODULE Spec2Model ----
(***************************************************************************)
(* The recommendation-request pipeline of the diabetes manager:            *)
(* pages/api/recommend (createRecommendationHandler, checkSufficientHistory,*)
(* getAIRecommendation) over the sqlite store of lib/database.ts.           *)
(*                                                                         *)
(* Time is counted in whole hours.  Texts (prompts, model answers, error    *)
(* messages, reasoning) are sequences of tokens; a fixed message of the     *)
(* source is a text of one token.  An optional value (undefined in the      *)
(* source) is None, a present one is Some(v).  Numbers read from a model    *)
(* answer are kept in units of 1/Scale so that decimals stay integers.      *)
(***************************************************************************)
EXTENDS Integers, Sequences, FiniteSets, TLC

\* ---------------------------------------------------------------- bounds
\* Largest number of entries stored for the patient in the handler runs.
MaxEntries == 3
\* Largest number of entries stored for the patient in the store runs.
MaxStored == 11
\* Largest number of tokens of a model answer in the gateway runs.
MaxTextLen == 5
\* Largest number of entries of the patient in the prompt runs that vary the
\* entry types and the brands.
MaxPromptEntries == 3
\* Largest number of insulin entries of the patient in the prompt runs that
\* vary the doses.
MaxDoseEntries == 6
\* Largest number of tokens of usualMedications in the prompt runs.
MaxMedTextLen == 4
\* Largest number of requests the dialog sends in the dialog runs.
MaxRequests == 2
\* Number of handler runs under way at a time in the concurrent runs.
MaxRuns == 2

\* ------------------------------------------------------ program constants
\* findEntriesByPatientId(patientId, limit = 10, offset = 0)
DefaultLimit == 10
DefaultOffset == 0
\* Date.now() - 72 * 60 * 60 * 1000
WindowHours == 72
\* const doseUnits = doseMatch ? parseFloat(doseMatch[1]) : 8;  and  doseUnits: 8
FallbackDose == 8
\* if (totalEntries < 3)
MinEntries == 3
\* a local calendar day without a clock change
CalendarDayHours == 24
\* DOSE_DIFFERENCE_WARNING_THRESHOLD = 0.2, in percent
DOSE_DIFFERENCE_WARNING_THRESHOLD == 20
\* insulinEntries.slice(0, 5)
RecentDoses == 5
\* hour >= 6 && hour < 12, hour >= 12 && hour < 18, hour >= 18 || hour < 6
MorningFrom == 6
AfternoonFrom == 12
EveningFrom == 18

None == <<>>
Some(v) == <<v>>

Min(a, b) == IF a < b THEN a ELSE b

\* ------------------------------------------------------------------ texts
KeyTok == "\"doseUnits\""
ConfTok == "\"confidence\""
QuoteTok == "\""
Digits == {"0", "1", "3", "5", "7"}
Tokens == {KeyTok, ":", " ", ".", "{", "}", "null"} \cup Digits

DigitValue(d) ==
  IF d = "0" THEN 0 ELSE IF d = "1" THEN 1 ELSE IF d = "3" THEN 3 ELSE IF d = "5" THEN 5 ELSE 7

RECURSIVE Pow10(_)
Pow10(n) == IF n = 0 THEN 1 ELSE 10 * Pow10(n - 1)

\* One dose unit, in the units numbers are kept in.
Scale == Pow10(MaxTextLen - 3)

\* \s* from position i: the first position that is not whitespace.
RECURSIVE SkipWs(_, _)
SkipWs(t, i) == IF i <= Len(t) /\ t[i] = " " THEN SkipWs(t, i + 1) ELSE i

\* \d* from position i: the first position that is not a digit.
RECURSIVE SkipDigits(_, _)
SkipDigits(t, i) == IF i <= Len(t) /\ t[i] \in Digits THEN SkipDigits(t, i + 1) ELSE i

\* The integer written by the digits t[a..b-1].
RECURSIVE DigitsValue(_, _, _)
DigitsValue(t, a, b) ==
  IF b <= a THEN 0 ELSE 10 * DigitsValue(t, a, b - 1) + DigitValue(t[b - 1])

\* parseFloat of an integer part t[a..b-1] and a fraction part t[c..d-1].
NumberValue(t, a, b, c, d) ==
  DigitsValue(t, a, b) * Scale + DigitsValue(t, c, d) * (Scale \div Pow10(d - c))

\* A number pattern without the fraction, \d+ alone.
MatchNumberNoFraction(t, k) ==
  LET e == SkipDigits(t, k)
  IN  IF e = k THEN [ok |-> FALSE, value |-> 0, end |-> k]
      ELSE [ok |-> TRUE, value |-> NumberValue(t, k, e, e, e), end |-> e]

\* \d+(?:\.\d+)? at position k: [ok, value, end].
MatchNumber(t, k) ==
  LET e == SkipDigits(t, k)
      f == IF e <= Len(t) /\ t[e] = "." THEN SkipDigits(t, e + 1) ELSE e
  IN  IF e = k THEN [ok |-> FALSE, value |-> 0, end |-> k]
      ELSE IF f > e + 1 THEN [ok |-> TRUE, value |-> NumberValue(t, k, e, e + 1, f), end |-> f]
      ELSE [ok |-> TRUE, value |-> NumberValue(t, k, e, e, e), end |-> e]

\* /"doseUnits"\s*:\s*(\d+(?:\.\d+)?)/ anchored at position i.
MatchDoseAt(t, i) ==
  LET j == SkipWs(t, i + 1)
  IN  IF i <= Len(t) /\ t[i] = KeyTok /\ j <= Len(t) /\ t[j] = ":"
      THEN MatchNumber(t, SkipWs(t, j + 1))
      ELSE [ok |-> FALSE, value |-> 0, end |-> i]

\* responseContent.match(/"doseUnits"\s*:\s*(\d+(?:\.\d+)?)/): the leftmost match.
RECURSIVE DoseMatchFrom(_, _)
DoseMatchFrom(t, i) ==
  IF i > Len(t) THEN None
  ELSE IF MatchDoseAt(t, i).ok THEN Some(MatchDoseAt(t, i).value)
  ELSE DoseMatchFrom(t, i + 1)

doseMatch(t) == DoseMatchFrom(t, 1)

\* The text without its leading and trailing whitespace.
RECURSIVE TrimRight(_)
TrimRight(t) ==
  IF Len(t) > 0 /\ t[Len(t)] = " " THEN TrimRight(SubSeq(t, 1, Len(t) - 1)) ELSE t

Trim(t) == LET s == TrimRight(t) IN SubSeq(s, SkipWs(s, 1), Len(s))

\* A JSON value of the text s (no whitespace around it): a number (no
\* leading zero), a string between quotes, null, or nothing (kind "none")
\* when s is not one of these.
IsString(s) ==
  /\ Len(s) >= 2
  /\ s[1] = QuoteTok
  /\ s[Len(s)] = QuoteTok
  /\ \A i \in 2..(Len(s) - 1) : s[i] \notin {QuoteTok, KeyTok, ConfTok}

ParseScalar(s) ==
  LET n == MatchNumber(s, 1)
  IN  IF s = <<"null">> THEN [kind |-> "null", value |-> 0]
      ELSE IF /\ Len(s) > 0 /\ n.ok /\ n.end = Len(s) + 1
              /\ ~(Len(s) >= 2 /\ s[1] = "0" /\ s[2] \in Digits)
           THEN [kind |-> "number", value |-> n.value]
      ELSE IF IsString(s)
           THEN [kind |-> "string", value |-> 0, chars |-> SubSeq(s, 2, Len(s) - 1)]
      ELSE [kind |-> "none", value |-> 0]

\* The position after the value that starts at k: after the closing quote of
\* a string, after null, after the digits of a number; 0 when none starts.
RECURSIVE ClosingQuote(_, _)
ClosingQuote(m, i) ==
  IF i > Len(m) THEN 0 ELSE IF m[i] = QuoteTok THEN i ELSE ClosingQuote(m, i + 1)

ValueEnd(m, k) ==
  IF k > Len(m) THEN 0
  ELSE IF m[k] = QuoteTok
       THEN IF ClosingQuote(m, k + 1) = 0 THEN 0 ELSE ClosingQuote(m, k + 1) + 1
  ELSE IF m[k] = "null" THEN k + 1
  ELSE IF MatchNumber(m, k).ok THEN MatchNumber(m, k).end
  ELSE 0

Undefined == [kind |-> "undefined", value |-> 0]

\* The members key: value (, key: value)* of an object body m from position
\* k on, the keys being "doseUnits" and "confidence"; a key given again
\* replaces the value it had.  [ok, doseUnits, confidence].
RECURSIVE ParseMembers(_, _, _)
ParseMembers(m, k, acc) ==
  LET j == SkipWs(m, k + 1)
      v == SkipWs(m, j + 1)
      e == ValueEnd(m, v)
      value == ParseScalar(SubSeq(m, v, e - 1))
      n == SkipWs(m, e)
      next == IF m[k] = KeyTok THEN [acc EXCEPT !.doseUnits = value]
              ELSE [acc EXCEPT !.confidence = value]
  IN  IF /\ k <= Len(m) /\ m[k] \in {KeyTok, ConfTok}
         /\ j <= Len(m) /\ m[j] = ":"
         /\ e # 0 /\ value.kind # "none"
      THEN IF n > Len(m) THEN next
           ELSE IF m[n] = "," THEN ParseMembers(m, SkipWs(m, n + 1), next)
           ELSE [acc EXCEPT !.ok = FALSE]
      ELSE [acc EXCEPT !.ok = FALSE]

\* The member "doseUnits": <value> of an object body m that holds this one
\* member (no whitespace around it).
ParseMember(m) ==
  LET members == ParseMembers(m, 1, [ok |-> TRUE, doseUnits |-> Undefined, confidence |-> Undefined])
  IN  IF members.ok THEN members.doseUnits ELSE [kind |-> "none", value |-> 0]

\* JSON.parse(responseContent) for the JSON texts these tokens can write: a
\* number, a string, null, {} and an object of the members "doseUnits" and
\* "confidence".  kind "SyntaxError" stands for the exception; a member the
\* object does not have has kind "undefined".
JSONparse(t) ==
  LET s == Trim(t)
      m == Trim(SubSeq(s, 2, Len(s) - 1))
      members == ParseMembers(m, 1, [ok |-> TRUE, doseUnits |-> Undefined, confidence |-> Undefined])
  IN  IF ParseScalar(s).kind # "none" THEN ParseScalar(s)
      ELSE IF Len(s) >= 2 /\ s[1] = "{" /\ s[Len(s)] = "}"
        THEN IF m = <<>>
             THEN [kind |-> "object", doseUnits |-> Undefined, confidence |-> Undefined]
             ELSE IF members.ok
               THEN [kind |-> "object", doseUnits |-> members.doseUnits,
                     confidence |-> members.confidence]
             ELSE [kind |-> "SyntaxError"]
      ELSE [kind |-> "SyntaxError"]

\* ------------------------------------------------------------- confidence
\* The letters of high, medium and low in both cases.
ToLower ==
  [c \in {"H", "I", "G", "M", "E", "D", "U", "L", "O", "W"} |->
     CASE c = "H" -> "h" [] c = "I" -> "i" [] c = "G" -> "g" [] c = "M" -> "m"
       [] c = "E" -> "e" [] c = "D" -> "d" [] c = "U" -> "u" [] c = "L" -> "l"
       [] c = "O" -> "o" [] c = "W" -> "w"]

\* confidence.toLowerCase()
toLowerCase(s) == [i \in 1..Len(s) |-> IF s[i] \in DOMAIN ToLower THEN ToLower[s[i]] ELSE s[i]]

High == <<"h", "i", "g", "h">>
Medium == <<"m", "e", "d", "i", "u", "m">>
Low == <<"l", "o", "w">>
LevelName(s) == IF s = High THEN "high" ELSE IF s = Medium THEN "medium" ELSE "low"

\* A normalizeConfidence without the lower-casing.
normalizeConfidenceExact(confidence) ==
  IF confidence.kind = "string" /\ confidence.chars \in {High, Medium, Low}
  THEN Some(LevelName(confidence.chars))
  ELSE None

normalizeConfidence(confidence) ==
  IF confidence.kind = "string" /\ confidence.chars \in {High, Medium, Low}
  THEN Some(LevelName(confidence.chars))
  ELSE IF confidence.kind = "string" /\ toLowerCase(confidence.chars) \in {High, Medium, Low}
       THEN Some(LevelName(toLowerCase(confidence.chars)))
       ELSE None

\* ---------------------------------------------------------- model gateway
\* What openai.chat.completions.create can do: fail on the network, answer
\* with a non-2xx status (the client throws), or answer with a completion
\* whose content is missing (None) or a text.
NetworkFailure == [kind |-> "network", content |-> None]
StatusFailure == [kind |-> "status", content |-> None]
Completion(content) == [kind |-> "completion", content |-> content]

ErrorMessage(completion) ==
  IF completion.kind = "network" THEN "Connection error."
  ELSE IF completion.kind = "status" THEN "500 status code (no body)"
  ELSE "No response content from OpenAI"

\* A fallback that leaves the dose out.
TechnicalFallbackNoDose(message) ==
  [doseUnits |-> None,
   medicationName |-> None,
   reasoning |-> Some(<<"Unable to get AI recommendation due to technical issues. Please consult with your healthcare provider for insulin dosing guidance. Error: ", message>>),
   safetyNotes |-> Some(<<"Technical error occurred - manual review required">>),
   confidence |-> Some("low"),
   recommendedMonitoring |-> Some(<<"Consult healthcare provider immediately">>)]

\* The outer catch of getAIRecommendation.
TechnicalFallback(message) ==
  [doseUnits |-> Some(FallbackDose * Scale),
   medicationName |-> None,
   reasoning |-> Some(<<"Unable to get AI recommendation due to technical issues. Please consult with your healthcare provider for insulin dosing guidance. Error: ", message>>),
   safetyNotes |-> Some(<<"Technical error occurred - manual review required">>),
   confidence |-> Some("low"),
   recommendedMonitoring |-> Some(<<"Consult healthcare provider immediately">>)]

\* The inner catch of getAIRecommendation.
ParseFallback(responseContent) ==
  [doseUnits |-> IF doseMatch(responseContent) # None
                 THEN doseMatch(responseContent)
                 ELSE Some(FallbackDose * Scale),
   medicationName |-> Some(<<"Unknown">>),
   reasoning |-> Some(responseContent),
   safetyNotes |-> Some(<<"Unable to parse structured response">>),
   confidence |-> Some("low"),
   recommendedMonitoring |-> Some(<<"Please consult healthcare provider">>)]

\* The fields read off a parsed JSON value that is not null.
ParsedFields(parsed) ==
  [doseUnits |-> IF parsed.kind = "object" /\ parsed.doseUnits.kind = "number"
                 THEN Some(parsed.doseUnits.value) ELSE None,
   medicationName |-> None,
   reasoning |-> None,
   safetyNotes |-> None,
   confidence |-> IF parsed.kind = "object" THEN normalizeConfidence(parsed.confidence) ELSE None,
   recommendedMonitoring |-> None]

\* !responseContent: the content is missing or the empty string.
NoContent(completion) == completion.content = None \/ completion.content = Some(<<>>)

getAIRecommendation(completion) ==
  IF completion.kind # "completion" \/ NoContent(completion)
  THEN TechnicalFallback(ErrorMessage(completion))
  ELSE LET responseContent == completion.content[1]
           parsed == JSONparse(responseContent)
       IN  \* a SyntaxError of JSON.parse and the TypeError of reading a field
           \* of null are both thrown inside the inner try
           IF parsed.kind \in {"SyntaxError", "null"}
           THEN ParseFallback(responseContent)
           ELSE ParsedFields(parsed)

\* --------------------------------------------------------------- history
\* findEntriesByPatientId: SELECT ... ORDER BY updatedAt DESC LIMIT ? OFFSET ?
\* over rows kept most recently updated first.
findEntriesByPatientId(rows, limit, offset) ==
  SubSeq(rows, offset + 1, Min(Len(rows), offset + limit))

\* entries.filter(entry => test(entry)), in order.
RECURSIVE OccurredSince(_, _)
OccurredSince(es, cutoff) ==
  IF es = <<>> THEN <<>>
  ELSE IF es[1].occurredAt >= cutoff
       THEN <<es[1]>> \o OccurredSince(Tail(es), cutoff)
       ELSE OccurredSince(Tail(es), cutoff)

\* const oneDayAgo = new Date(); oneDayAgo.setDate(oneDayAgo.getDate() - 1):
\* the same wall-clock time on the previous local calendar day, read back
\* with the UTC offset in force on that day.
OneDayAgo(now, tz) == (now + tz.offsetNow) - CalendarDayHours - tz.offsetDayBefore

NoHistoryMessage ==
  "No patient history found. Please add at least 1 day of glucose readings, meals, and insulin doses before getting recommendations."
FewEntriesMessage(totalEntries) ==
  "Only " \o ToString(totalEntries) \o " entries found. Please add at least 3 entries (glucose, meals, insulin) over at least 1 day before getting recommendations."
AllTodayMessage ==
  "All entries are from today. Please add entries from at least 1 day ago to provide better context for recommendations."
SufficientMessage == "Sufficient history available for recommendations."

\* A gate that lets every history through.
InsufficientIgnored(check) == FALSE

\* if (!hasSufficientHistory.hasSufficientHistory)
Insufficient(check) == ~check.hasSufficientHistory

checkSufficientHistory(es, oneDayAgo) ==
  LET totalEntries == Len(es)
      hasHistoricalData == \E i \in 1..Len(es) : es[i].occurredAt < oneDayAgo
  IN  IF totalEntries = 0
      THEN [hasSufficientHistory |-> FALSE, message |-> NoHistoryMessage]
      ELSE IF totalEntries < MinEntries
      THEN [hasSufficientHistory |-> FALSE, message |-> FewEntriesMessage(totalEntries)]
      ELSE IF ~hasHistoricalData
      THEN [hasSufficientHistory |-> FALSE, message |-> AllTodayMessage]
      ELSE [hasSufficientHistory |-> TRUE, message |-> SufficientMessage]

\* ---------------------------------------------------------------- request
ValidTimeZones == {"UTC", "America/New_York"}

\* recommendSchema.parse(req.body): patientId is a string of at least one
\* character; a missing body (None) or an empty patientId is rejected.
recommendSchemaOk(body) == body # None /\ body[1].patientId # ""

\* The targetTime strings of the requests: the ISO text of the instant
\* PlannedTime hours after the request, the empty string, and a text that
\* is no date.
PlannedIso == "now+5h"
PlannedTime == 5
TargetTimes == {PlannedIso, "", "someday"}

\* new Date(targetTime): the instant, None for an Invalid Date.
NewDate(s) == IF s = PlannedIso THEN Some(PlannedTime) ELSE None

\* targetTime ? new Date(targetTime) : new Date(), the request being handled
\* at the instant now.
targetDateTime(body, now) ==
  IF body.targetTime = None \/ body.targetTime = Some("") THEN Some(now)
  ELSE NewDate(body.targetTime[1])

\* buildRecommendationPrompt renders the target time and every entry with
\* toLocaleString(..., { timeZone }), which throws a RangeError for a name
\* that is no IANA time zone.
PromptThrows(timeZone) == timeZone \notin ValidTimeZones

\* ----------------------------------------------------------------- prompt
\* patient.usualMedications as the prompt builder can meet it: a string (the
\* column of table patients), a native list, or any other value.  The items
\* of a list are a medication object ("med"), null or a number ("5").
MedItems == {"med", "null", "5"}
MedString(text) == [kind |-> "string", text |-> text]
MedList(items) == [kind |-> "array", items |-> items]
MedOther == [kind |-> "other"]

\* The items of the array body b, item (, item)*: [ok, items].
RECURSIVE ParseItems(_)
ParseItems(b) ==
  IF Len(b) = 1 /\ b[1] \in MedItems THEN [ok |-> TRUE, items |-> b]
  ELSE IF Len(b) >= 3 /\ b[1] \in MedItems /\ b[2] = "," /\ ParseItems(SubSeq(b, 3, Len(b))).ok
       THEN [ok |-> TRUE, items |-> <<b[1]>> \o ParseItems(SubSeq(b, 3, Len(b))).items]
       ELSE [ok |-> FALSE, items |-> <<>>]

\* JSON.parse(patient.usualMedications || '[]') for the texts of the tokens
\* [ ] , med null 5: an array, a single value, or a SyntaxError.
ParseMedications(text) ==
  LET t == IF text = <<>> THEN <<"[", "]">> ELSE text
      body == SubSeq(t, 2, Len(t) - 1)
  IN  IF Len(t) = 1 /\ t[1] \in MedItems THEN [kind |-> "value", items |-> <<>>]
      ELSE IF Len(t) >= 2 /\ t[1] = "[" /\ t[Len(t)] = "]"
        THEN IF body = <<>> THEN [kind |-> "array", items |-> <<>>]
             ELSE IF ParseItems(body).ok THEN [kind |-> "array", items |-> ParseItems(body).items]
             ELSE [kind |-> "SyntaxError", items |-> <<>>]
      ELSE [kind |-> "SyntaxError", items |-> <<>>]

\* let medications = []; try { ... } catch { medications = [] }: what the
\* variable holds after the block.  A string is replaced by whatever it
\* decodes to, a list or not.
NormalizeMedications(usualMedications) ==
  IF usualMedications.kind = "string"
  THEN IF ParseMedications(usualMedications.text).kind = "SyntaxError"
       THEN [kind |-> "array", items |-> <<>>]
       ELSE ParseMedications(usualMedications.text)
  ELSE IF usualMedications.kind = "array"
       THEN [kind |-> "array", items |-> usualMedications.items]
       ELSE [kind |-> "array", items |-> <<>>]

\* medications.map(med => `${med.brand} ${med.dosage} (${med.timing})`) throws
\* a TypeError when medications is no list and when an item is null.
MedicationsThrow(p) ==
  LET medications == NormalizeMedications(p.usualMedications)
  IN  \/ medications.kind # "array"
      \/ \E i \in 1..Len(medications.items) : medications.items[i] = "null"

\* entries.filter(entry => entry.entryType === type), in order.
RECURSIVE OfType(_, _)
OfType(es, type) ==
  IF es = <<>> THEN <<>>
  ELSE IF es[1].entryType = type THEN <<es[1]>> \o OfType(Tail(es), type)
  ELSE OfType(Tail(es), type)

\* const normalizeBrand = (brand) => ...: None for a missing, empty or blank
\* brand, the trimmed brand otherwise.
normalizeBrand(brand) ==
  IF brand = None \/ brand[1] = <<>> THEN None
  ELSE IF Trim(brand[1]) = <<>> THEN None ELSE Some(Trim(brand[1]))

\* The hour of the day of an instant in a time zone, the run being at
\* midnight UTC.
HoursWestNewYork == 5
UtcOffset(timeZone) == IF timeZone = "America/New_York" THEN 0 - HoursWestNewYork ELSE 0
\* An hour taken in UTC whatever the timezone supplied.
HourOfUtc(occurredAt, timeZone) == occurredAt % CalendarDayHours

\* Number(new Date(occurredAt).toLocaleString('en-US', {hour, hour12: false, timeZone}))
HourOf(occurredAt, timeZone) == (occurredAt + UtcOffset(timeZone)) % CalendarDayHours

InBucket(hour, bucket) ==
  IF bucket = "morning" THEN hour >= MorningFrom /\ hour < AfternoonFrom
  ELSE IF bucket = "afternoon" THEN hour >= AfternoonFrom /\ hour < EveningFrom
  ELSE hour >= EveningFrom \/ hour < MorningFrom

\* insulinEntries.filter(entry => hour of entry in bucket), in order.
RECURSIVE BucketEntries(_, _, _)
BucketEntries(es, bucket, timeZone) ==
  IF es = <<>> THEN <<>>
  ELSE IF InBucket(HourOf(es[1].occurredAt, timeZone), bucket)
       THEN <<es[1]>> \o BucketEntries(Tail(es), bucket, timeZone)
       ELSE BucketEntries(Tail(es), bucket, timeZone)

\* entries.map(e => normalizeBrand(e.medicationBrand)).filter(Boolean)
RECURSIVE BrandsOf(_)
BrandsOf(es) ==
  IF es = <<>> THEN <<>>
  ELSE IF normalizeBrand(es[1].medicationBrand) = None THEN BrandsOf(Tail(es))
  ELSE <<normalizeBrand(es[1].medicationBrand)[1]>> \o BrandsOf(Tail(es))

\* counts[item] after the forEach.
Count(arr, item) == Cardinality({i \in 1..Len(arr) : arr[i] = item})

\* Object.keys(counts): the distinct items in the order they were first
\* added (no brand here is written like an array index).
RECURSIVE Keys(_)
Keys(arr) ==
  IF arr = <<>> THEN <<>>
  ELSE LET front == Keys(SubSeq(arr, 1, Len(arr) - 1))
       IN  IF \E i \in 1..Len(front) : front[i] = arr[Len(arr)]
           THEN front ELSE Append(front, arr[Len(arr)])

\* keys.reduce((a, b) => counts[a] > counts[b] ? a : b) from the left.
RECURSIVE ReduceKeys(_, _, _)
ReduceKeys(a, keys, arr) ==
  IF keys = <<>> THEN a
  ELSE ReduceKeys(IF Count(arr, a) > Count(arr, keys[1]) THEN a ELSE keys[1], Tail(keys), arr)

getMostCommon(arr) ==
  IF arr = <<>> THEN None
  ELSE Some(ReduceKeys(Keys(arr)[1], Tail(Keys(arr)), arr))

\* The line of one time-of-day bucket: nothing for an empty bucket or one
\* without a brand, else the brand and the number of entries of the bucket.
BucketLine(insulinEntries, bucket, timeZone) ==
  LET inBucket == BucketEntries(insulinEntries, bucket, timeZone)
      mostCommon == getMostCommon(BrandsOf(inBucket))
  IN  IF inBucket = <<>> \/ mostCommon = None THEN None
      ELSE Some([brand |-> mostCommon[1], entries |-> Len(inBucket)])

\* parseFloat(e.value): None stands for NaN.
parseFloat(value) ==
  LET n == MatchNumber(value, SkipWs(value, 1))
  IN  IF n.ok THEN Some(n.value) ELSE None

\* insulinEntries.slice(0, 5).map(e => parseFloat(e.value)).filter(d => !isNaN(d))
RECURSIVE ParsedDoses(_)
ParsedDoses(es) ==
  IF es = <<>> THEN <<>>
  ELSE IF parseFloat(es[1].value) = None THEN ParsedDoses(Tail(es))
  ELSE <<parseFloat(es[1].value)[1]>> \o ParsedDoses(Tail(es))

RECURSIVE Sum(_)
Sum(ds) == IF ds = <<>> THEN 0 ELSE ds[1] + Sum(Tail(ds))
MinOf(ds) == CHOOSE d \in {ds[i] : i \in 1..Len(ds)} : \A j \in 1..Len(ds) : d <= ds[j]
MaxOf(ds) == CHOOSE d \in {ds[i] : i \in 1..Len(ds)} : \A j \in 1..Len(ds) : d >= ds[j]

\* avgDose.toFixed(1), in tenths: the nearest tenth, the larger of two
\* equally near ones.
ToFixed1(sum, n) == (2 * 10 * sum + n * Scale) \div (2 * n * Scale)

\* The line "Recent dose range: min-max IU (average: avg IU)".
DoseRange(ds) ==
  IF ds = <<>> THEN None
  ELSE Some([min |-> MinOf(ds), max |-> MaxOf(ds), average |-> ToFixed1(Sum(ds), Len(ds))])

\* analyzeMedicationPatterns(insulinEntries, targetTime, timeZone): the lines
\* pushed, in the order morning, afternoon, evening, dose range.
analyzeMedicationPatterns(insulinEntries, timeZone) ==
  IF insulinEntries = <<>> THEN [kind |-> "none"]
  ELSE LET recentDoses == ParsedDoses(SubSeq(insulinEntries, 1, Min(Len(insulinEntries), RecentDoses)))
           lines == [morning |-> BucketLine(insulinEntries, "morning", timeZone),
                     afternoon |-> BucketLine(insulinEntries, "afternoon", timeZone),
                     evening |-> BucketLine(insulinEntries, "evening", timeZone),
                     doseRange |-> DoseRange(recentDoses)]
       IN  IF \A f \in DOMAIN lines : lines[f] = None THEN [kind |-> "limited"]
           ELSE [kind |-> "patterns"] @@ lines

\* The prompt, by what it is rendered from.  The paragraph IMPORTANT CLINICAL
\* RULE (a glucose reading from before the last insulin dose is outdated) is
\* part of the fixed text of the template.
buildRecommendationPrompt(p, es, timeZone) ==
  [patient |-> p.id,
   medications |-> NormalizeMedications(p.usualMedications).items,
   entries |-> es,
   timeZone |-> timeZone,
   patternAnalysis |-> analyzeMedicationPatterns(OfType(es, "insulin"), timeZone),
   staleReadingRule |-> TRUE]

\* ------------------------------------------------------------ safety check
\* Limits of validateRecommendation: doses in IU, the change in percent, the
\* confidence in tenths.
SafeDoseMax == 50
ChangePercentMax == 20
ConfidenceMinTenths == 3

Abs(x) == IF x < 0 THEN 0 - x ELSE x

\* if (lastDose && recommendation.doseUnits): both are given and not 0.
BothTruthy(lastDose, doseUnits) == lastDose # None /\ lastDose[1] # 0 /\ doseUnits # 0

\* Math.abs((doseUnits - lastDose) / lastDose) * 100 > 20
ChangeTooLarge(lastDose, doseUnits) ==
  100 * Abs(doseUnits - lastDose) > ChangePercentMax * Abs(lastDose)

\* validateRecommendation(recommendation, lastDose): the warnings by their
\* kind, in the order they are pushed, and isValid.
validateRecommendation(recommendation, lastDose) ==
  LET range == IF recommendation.doseUnits < 0 \/ recommendation.doseUnits > SafeDoseMax
               THEN <<"range">> ELSE <<>>
      change == IF /\ BothTruthy(lastDose, recommendation.doseUnits)
                   /\ ChangeTooLarge(lastDose[1], recommendation.doseUnits)
                THEN <<"change">> ELSE <<>>
      confidence == IF recommendation.confidence < ConfidenceMinTenths
                    THEN <<"confidence">> ELSE <<>>
      warnings == range \o change \o confidence
  IN  [isValid |-> warnings = <<>>, warnings |-> warnings]

\* -------------------------------------------------------- progress stream
PROGRESS_STEPS == <<"gathering-data", "building-prompt", "waiting-for-model", "parsing-response">>

\* res.write: the stream takes the event unless it has been ended.  The
\* handler never looks at the connection; closedAt keeps how many events it
\* had written when the client went away.
Write(r, e) ==
  IF r.ended THEN [r EXCEPT !.lateWrites = @ + 1]
  ELSE [r EXCEPT !.events = Append(@, e)]

\* res.end()
End(r) == [r EXCEPT !.ended = TRUE]

\* A sendProgress that drops the events of the building-prompt stage.
sendProgressSkipsPrompt(r, step, message) ==
  IF step = "building-prompt" THEN r
  ELSE Write(r, [type |-> "progress", step |-> step, message |-> message])

sendProgress(r, step, message) ==
  Write(r, [type |-> "progress", step |-> step, message |-> message])

\* A sendError that forgets res.end().
sendErrorNoEnd(r, error) == Write(r, [type |-> "error", error |-> error])

sendError(r, error) == End(Write(r, [type |-> "error", error |-> error]))

sendResult(r, data) == End(Write(r, [type |-> "result", data |-> data]))

\* A catch block that ends the stream without writing the error.
CatchErrorSilent(r) == End(r)

\* The catch block of the handler; the ZodError branch is never taken, the
\* schema's exception being caught where it is thrown.
CatchError(r) == End(Write(r, [type |-> "error", error |-> "Internal server error"]))

\* ------------------------------------------------------------------ state
VARIABLES
  pc,                  \* where the handler stands
  req,                 \* the request: the session's userId and the body
  res,                 \* the response stream
  serverTz,            \* the server's UTC offset now and a calendar day ago
  users,               \* table users
  patients,            \* table patients
  entriesStore,        \* table entries: patientId -> rows, most recently updated first
  recommendations,     \* table recommendations
  actualUserId,        \* locals of createRecommendationHandler ...
  patient,
  entries,
  recentEntries,
  hasSufficientHistory,
  prompt,
  modelCalls,          \* the prompts sent to the model
  completion,          \* the model call's outcome, in flight
  aiRecommendation,
  savedRecommendation,
  dialog,              \* the state of InsulinRecommendationDialog
  others,              \* the other handler runs under way, each with its own locals
  validation           \* a call of validateRecommendation: its arguments and its result

vars == <<pc, req, res, serverTz, users, patients, entriesStore, recommendations,
          actualUserId, patient, entries, recentEntries, hasSufficientHistory,
          prompt, modelCalls, completion, aiRecommendation, savedRecommendation,
          dialog, others, validation>>

db == <<users, patients, entriesStore>>
locals == <<actualUserId, patient, entries, recentEntries, hasSufficientHistory,
            prompt, modelCalls, completion, aiRecommendation, savedRecommendation>>

SeqsUpTo(S, n) == UNION {[1..k -> S] : k \in 0..n}

\* Ages of entries in hours: of today, exactly a day old, just over a day
\* old, and out of the 72-hour window.
Ages == {1, 24, 25, 100}
EntryAged(a) ==
  [occurredAt |-> 0 - a, entryType |-> "glucose", value |-> <<"7">>, medicationBrand |-> None]

UserIds == {"u1", "a@x", "ghost@x"}
PatientIds == {"p1", "p2", "p9"}
TimeZones == {None, Some("America/New_York"), Some("Mars/Phobos")}
Bodies ==
  {None, Some([patientId |-> "", timezone |-> None, targetTime |-> None])}
    \cup {Some([patientId |-> p, timezone |-> z, targetTime |-> None]) : p \in PatientIds, z \in TimeZones}
    \cup {Some([patientId |-> p, timezone |-> None, targetTime |-> Some(s)]) :
            p \in PatientIds, s \in TargetTimes}

\* userId.includes('@')
IsEmail(userId) == userId \in {"a@x", "b@x", "ghost@x"}

\* The server's clock: no clock change in the last calendar day, clocks put
\* forward in it (a day of 23 hours), clocks put back in it (25 hours).
ServerClocks ==
  { [offsetNow |-> 0, offsetDayBefore |-> 0],
    [offsetNow |-> 1, offsetDayBefore |-> 0],
    [offsetNow |-> 0, offsetDayBefore |-> 1] }

\* Model answers tried in the handler runs.
SampleContents ==
  { <<"{", KeyTok, ":", "7", "}">>,
    <<"{", "}">>,
    <<"null">>,
    <<KeyTok, ":", "7", ".", "5">>,
    <<"{", KeyTok>> }
Completions ==
  {NetworkFailure, StatusFailure, Completion(None), Completion(Some(<<>>))}
    \cup {Completion(Some(c)) : c \in SampleContents}

\* The dialog before it is opened: the useState initial values.  reading
\* tells that a startRecommendation is reading the stream, read how many
\* events it has taken, started how many requests the dialog has sent,
\* stale that the dialog was closed after the request being read was sent.
ClosedDialog ==
  [open |-> FALSE, progress |-> "idle", recommendation |-> None, error |-> None,
   showWarning |-> FALSE, lastDose |-> None, reading |-> FALSE, read |-> 0, started |-> 0,
   stale |-> FALSE]

InitRes ==
  [headersSent |-> FALSE, events |-> <<>>, ended |-> FALSE, lateWrites |-> 0,
   closed |-> FALSE, closedAt |-> 0]

\* A row of table patients; usualMedications is the JSON text of a list of
\* one medication.
PatientRow(id, userId) ==
  [id |-> id, userId |-> userId, usualMedications |-> MedString(<<"[", "med", "]">>)]

InitTables ==
  /\ users = {[id |-> "u1", email |-> "a@x"], [id |-> "u2", email |-> "b@x"]}
  /\ patients = {PatientRow("p1", "u1"), PatientRow("p2", "u2")}
  /\ recommendations = <<>>

InitLocals ==
  /\ actualUserId = None
  /\ patient = None
  /\ entries = None
  /\ recentEntries = None
  /\ hasSufficientHistory = None
  /\ prompt = None
  /\ modelCalls = <<>>
  /\ completion = None
  /\ aiRecommendation = None
  /\ savedRecommendation = None

Init ==
  /\ pc = "idle"
  /\ req = None
  /\ res = InitRes
  /\ dialog = ClosedDialog
  /\ others = <<>>
  /\ validation = None
  /\ serverTz \in ServerClocks
  /\ InitTables
  /\ \E rows \in SeqsUpTo({EntryAged(a) : a \in Ages}, MaxEntries) :
       entriesStore = [p \in {"p1", "p2"} |-> rows]
  /\ InitLocals

\* ------------------------------------------------------------- data access
findUserByEmail(email) ==
  IF \E u \in users : u.email = email
  THEN Some(CHOOSE u \in users : u.email = email) ELSE None

findPatientById(id) ==
  IF \E p \in patients : p.id = id
  THEN Some(CHOOSE p \in patients : p.id = id) ELSE None

EntryRows(patientId) ==
  IF patientId \in DOMAIN entriesStore THEN entriesStore[patientId] ELSE <<>>

\* An ownership test that lets every caller through.
IsOwnerAnyone(p, userId) == TRUE

\* patient.userId !== actualUserId, negated
IsOwner(p, userId) == p.userId = userId

\* The row of the INSERT: the values given and, for the column targetTime,
\* recommendationData.targetTime when the caller gave one, else NULL.
RecommendationRow(id, data) ==
  [id |-> id] @@ data
    @@ [targetTime |-> IF "targetTime" \in DOMAIN data THEN data.targetTime ELSE None]

\* An insert that takes the place of the row stored last.
createRecommendationOverLast(rows, data) ==
  IF rows = <<>> THEN <<RecommendationRow(1, data)>>
  ELSE [rows EXCEPT ![Len(rows)] = RecommendationRow(Len(rows), data)]

\* An insert that stores the row twice.
createRecommendationTwice(rows, data) ==
  Append(Append(rows, RecommendationRow(Len(rows) + 1, data)), RecommendationRow(Len(rows) + 2, data))

\* createRecommendation: INSERT INTO recommendations; the table after it.  The
\* row it returns is the last one.
createRecommendation(rows, data) == Append(rows, RecommendationRow(Len(rows) + 1, data))

\* ------------------------------------------------------------ the handler
\* The handler ends: the stream is r, nothing else changes.
Finish(r) ==
  /\ res' = r
  /\ pc' = "done"

\* createRecommendationHandler is called: res.writeHead(200, SSE headers).
Request ==
  /\ pc = "idle"
  /\ \E userId \in UserIds, body \in Bodies :
       /\ req' = Some([userId |-> userId, body |-> body])
       /\ res' = [res EXCEPT !.headersSent = TRUE]
       /\ IF IsEmail(userId)
          THEN pc' = "findUser" /\ actualUserId' = None
          ELSE pc' = "validate" /\ actualUserId' = Some(userId)
  /\ UNCHANGED <<others, dialog, serverTz, validation, db, recommendations, patient, entries, recentEntries,
                 hasSufficientHistory, prompt, modelCalls, completion,
                 aiRecommendation, savedRecommendation>>

\* await findUserByEmail(userId) returns or throws.
FindUser ==
  /\ pc = "findUser"
  /\ \/ /\ findUserByEmail(req[1].userId) = None
        /\ Finish(sendError(res, "User not found"))
        /\ UNCHANGED actualUserId
     \/ /\ findUserByEmail(req[1].userId) # None
        /\ actualUserId' = Some(findUserByEmail(req[1].userId)[1].id)
        /\ pc' = "validate"
        /\ UNCHANGED res
     \/ /\ Finish(CatchError(res))
        /\ UNCHANGED actualUserId
  /\ UNCHANGED <<others, dialog, req, serverTz, validation, db, recommendations, patient, entries, recentEntries,
                 hasSufficientHistory, prompt, modelCalls, completion,
                 aiRecommendation, savedRecommendation>>

\* A validation whose failure is left to the catch block of the handler.
ValidateUncaught ==
  /\ pc = "validate"
  /\ \/ /\ ~recommendSchemaOk(req[1].body)
        /\ Finish(CatchError(res))
     \/ /\ recommendSchemaOk(req[1].body)
        /\ res' = sendProgress(res, "gathering-data", "Checking authentication...")
        /\ pc' = "loadPatient"
  /\ UNCHANGED <<others, dialog, req, serverTz, validation, db, recommendations, locals>>

\* recommendSchema.parse(req.body), then the first progress event.
Validate ==
  /\ pc = "validate"
  /\ \/ /\ ~recommendSchemaOk(req[1].body)
        /\ Finish(sendError(res, "Validation failed"))
     \/ /\ recommendSchemaOk(req[1].body)
        /\ res' = sendProgress(res, "gathering-data", "Checking authentication...")
        /\ pc' = "loadPatient"
  /\ UNCHANGED <<others, dialog, req, serverTz, validation, db, recommendations, locals>>

\* A lookup that tells the caller when the patient is someone else's.
LoadPatientAccessDenied ==
  /\ pc = "loadPatient"
  /\ LET r == sendProgress(res, "gathering-data", "Loading patient data...")
         found == findPatientById(req[1].body[1].patientId)
     IN  \/ /\ found = None
            /\ Finish(sendError(r, "Patient not found"))
            /\ UNCHANGED patient
         \/ /\ found # None
            /\ ~IsOwner(found[1], actualUserId[1])
            /\ Finish(sendError(r, "Access denied"))
            /\ patient' = found
         \/ /\ found # None
            /\ IsOwner(found[1], actualUserId[1])
            /\ patient' = found
            /\ res' = r
            /\ pc' = "loadEntries"
         \/ /\ Finish(CatchError(r))
            /\ UNCHANGED patient
  /\ UNCHANGED <<others, dialog, req, serverTz, validation, db, recommendations, actualUserId, entries,
                 recentEntries, hasSufficientHistory, prompt, modelCalls, completion,
                 aiRecommendation, savedRecommendation>>

\* The patient is read and its owner compared with the caller.
LoadPatient ==
  /\ pc = "loadPatient"
  /\ LET r == sendProgress(res, "gathering-data", "Loading patient data...")
         found == findPatientById(req[1].body[1].patientId)
     IN  \/ /\ found = None
            /\ Finish(sendError(r, "Patient not found"))
            /\ UNCHANGED patient
         \/ /\ found # None
            /\ ~IsOwner(found[1], actualUserId[1])
            /\ Finish(sendError(r, "Patient not found"))
            /\ patient' = found
         \/ /\ found # None
            /\ IsOwner(found[1], actualUserId[1])
            /\ patient' = found
            /\ res' = r
            /\ pc' = "loadEntries"
         \/ /\ Finish(CatchError(r))
            /\ UNCHANGED patient
  /\ UNCHANGED <<others, dialog, req, serverTz, validation, db, recommendations, actualUserId, entries,
                 recentEntries, hasSufficientHistory, prompt, modelCalls, completion,
                 aiRecommendation, savedRecommendation>>

\* The entries are read, the 72-hour window is cut and the history is checked.
LoadEntries ==
  /\ pc = "loadEntries"
  /\ LET r1 == sendProgress(res, "gathering-data", "Loading recent entries...")
         es == findEntriesByPatientId(EntryRows(req[1].body[1].patientId),
                                      DefaultLimit, DefaultOffset)
         recent == OccurredSince(es, 0 - WindowHours)
         r2 == sendProgress(r1, "gathering-data",
                            "Found " \o ToString(Len(recent)) \o " recent entries")
         check == checkSufficientHistory(es, OneDayAgo(0, serverTz))
     IN  \/ /\ entries' = Some(es)
            /\ recentEntries' = Some(recent)
            /\ hasSufficientHistory' = Some(check)
            /\ IF Insufficient(check)
               THEN Finish(sendError(r2, check.message))
               ELSE /\ res' = sendProgress(r2, "building-prompt", "Building AI prompt...")
                    /\ pc' = "buildPrompt"
         \/ /\ Finish(CatchError(r1))
            /\ UNCHANGED <<entries, recentEntries, hasSufficientHistory>>
  /\ UNCHANGED <<others, dialog, req, serverTz, validation, db, recommendations, actualUserId, patient, prompt,
                 modelCalls, completion, aiRecommendation, savedRecommendation>>

\* buildRecommendationPrompt(patient, recentEntries, targetDateTime, userTimezone)
BuildPrompt ==
  /\ pc = "buildPrompt"
  /\ LET timezone == req[1].body[1].timezone
         userTimezone == IF timezone = None THEN "UTC" ELSE timezone[1]
     IN  IF MedicationsThrow(patient[1]) \/ PromptThrows(userTimezone)
         THEN /\ Finish(CatchError(res))
              /\ UNCHANGED prompt
         ELSE /\ prompt' = Some(buildRecommendationPrompt(patient[1], recentEntries[1], userTimezone))
              /\ res' = sendProgress(res, "building-prompt", "Prompt built successfully")
              /\ pc' = "callModel"
  /\ UNCHANGED <<others, dialog, req, serverTz, validation, db, recommendations, actualUserId, patient, entries,
                 recentEntries, hasSufficientHistory, modelCalls, completion,
                 aiRecommendation, savedRecommendation>>

\* The call openai.chat.completions.create({... content: prompt ...}) goes out
\* with the outcome c.
SendToModel(c) ==
  /\ pc = "callModel"
  /\ res' = sendProgress(res, "waiting-for-model", "Calling AI model...")
  /\ modelCalls' = Append(modelCalls, prompt[1])
  /\ completion' = Some(c)
  /\ pc' = "awaitModel"
  /\ UNCHANGED <<others, dialog, req, serverTz, validation, db, recommendations, actualUserId, patient, entries,
                 recentEntries, hasSufficientHistory, prompt, aiRecommendation,
                 savedRecommendation>>

CallModel ==
  /\ pc = "callModel"
  /\ \E c \in Completions : SendToModel(c)

\* A gateway that sends the prompt again when the call has failed.
ModelReturnsRetrying ==
  /\ pc = "awaitModel"
  /\ IF completion[1].kind # "completion"
     THEN /\ pc' = "callModel"
          /\ UNCHANGED <<res, aiRecommendation>>
     ELSE /\ aiRecommendation' = Some(getAIRecommendation(completion[1]))
          /\ res' = sendProgress(res, "waiting-for-model", "AI response received")
          /\ pc' = "save"
  /\ UNCHANGED <<others, dialog, req, serverTz, validation, db, recommendations, actualUserId, patient, entries,
                 recentEntries, hasSufficientHistory, prompt, modelCalls, completion,
                 savedRecommendation>>

\* await getAIRecommendation(prompt) returns.
ModelReturns ==
  /\ pc = "awaitModel"
  /\ aiRecommendation' = Some(getAIRecommendation(completion[1]))
  /\ res' = sendProgress(res, "waiting-for-model", "AI response received")
  /\ pc' = "save"
  /\ UNCHANGED <<others, dialog, req, serverTz, validation, db, recommendations, actualUserId, patient, entries,
                 recentEntries, hasSufficientHistory, prompt, modelCalls, completion,
                 savedRecommendation>>

\* The argument of createRecommendation.
RecommendationData ==
  LET ai == aiRecommendation[1]
  IN  [patientId |-> req[1].body[1].patientId,
       prompt |-> prompt[1],
       response |-> IF ai.reasoning = None THEN <<"No reasoning provided">> ELSE ai.reasoning[1],
       doseUnits |-> ai.doseUnits,
       medicationName |-> ai.medicationName,
       reasoning |-> ai.reasoning,
       safetyNotes |-> ai.safetyNotes,
       confidence |-> ai.confidence,
       recommendedMonitoring |-> ai.recommendedMonitoring]

\* createRecommendation inserts the row and returns it, or throws before
\* anything is stored.
Save ==
  /\ pc = "save"
  /\ LET r == sendProgress(res, "parsing-response", "Processing recommendation...")
         stored == createRecommendation(recommendations, RecommendationData)
     IN  \/ /\ recommendations' = stored
            /\ savedRecommendation' = Some(stored[Len(stored)])
            /\ IF savedRecommendation' = None
               THEN Finish(sendError(r, "Failed to save recommendation"))
               ELSE /\ res' = sendProgress(r, "parsing-response", "Recommendation saved")
                    /\ pc' = "sendResult"
         \/ /\ Finish(CatchError(r))
            /\ UNCHANGED <<recommendations, savedRecommendation>>
  /\ UNCHANGED <<others, dialog, req, serverTz, validation, db, actualUserId, patient, entries, recentEntries,
                 hasSufficientHistory, prompt, modelCalls, completion, aiRecommendation>>

\* sendResult(result): the saved recommendation with targetTime: targetDateTime.
SendResult ==
  /\ pc = "sendResult"
  /\ Finish(sendResult(res, [savedRecommendation[1] EXCEPT
                               !.targetTime = targetDateTime(req[1].body[1], 0)]))
  /\ UNCHANGED <<others, dialog, req, serverTz, validation, db, recommendations, locals>>

Next ==
  \/ Request
  \/ FindUser
  \/ Validate
  \/ LoadPatient
  \/ LoadEntries
  \/ BuildPrompt
  \/ CallModel
  \/ ModelReturns
  \/ Save
  \/ SendResult

Spec == Init /\ [][Next]_vars

\* ------------------------------------------------- runs from a later point
\* A handler run of caller u1 for the own patient p1, no time zone given.
OwnRequest == Some([userId |-> "u1", body |-> Some([patientId |-> "p1", timezone |-> None, targetTime |-> None])])

\* The stream when the entries are about to be read.
StreamBeforeEntries ==
  sendProgress(
    sendProgress([InitRes EXCEPT !.headersSent = TRUE],
                 "gathering-data", "Checking authentication..."),
    "gathering-data", "Loading patient data...")

\* The handler about to read the entries of a patient with up to MaxStored
\* rows, each of today or out of the window.
InitStore ==
  /\ pc = "loadEntries"
  /\ req = OwnRequest
  /\ res = StreamBeforeEntries
  /\ dialog = ClosedDialog
  /\ others = <<>>
  /\ validation = None
  /\ serverTz \in ServerClocks
  /\ InitTables
  /\ \E rows \in SeqsUpTo({EntryAged(1), EntryAged(100)}, MaxStored) :
       entriesStore = [p \in {"p1", "p2"} |-> rows]
  /\ actualUserId = Some("u1")
  /\ patient = Some(PatientRow("p1", "u1"))
  /\ entries = None
  /\ recentEntries = None
  /\ hasSufficientHistory = None
  /\ prompt = None
  /\ modelCalls = <<>>
  /\ completion = None
  /\ aiRecommendation = None
  /\ savedRecommendation = None

NextStore ==
  \/ LoadEntries
  \/ BuildPrompt

SpecStore == InitStore /\ [][NextStore]_vars

\* The handler about to read the entries, for a patient and a history drawn
\* from four families: every usualMedications over a fixed history; insulin
\* entries of every brand in two times of day; glucose and insulin entries
\* of three ages; insulin entries of every dose, of today and of yesterday.
MedTokens == {"[", "]", ","} \cup MedItems
MedValues ==
  {MedOther}
    \cup {MedString(s) : s \in SeqsUpTo(MedTokens, MaxMedTextLen)}
    \cup {MedList(l) : l \in SeqsUpTo(MedItems, 2)}
Brands == {None, Some(<<" ">>), Some(<<"A">>), Some(<<" ", "A">>), Some(<<"B">>)}
Entry(type, age, value, brand) ==
  [occurredAt |-> 0 - age, entryType |-> type, value |-> value, medicationBrand |-> brand]
BrandEntries == {Entry("insulin", a, <<"7">>, b) : a \in {25, 37}, b \in Brands}
TypeEntries == {Entry(ty, a, <<"7">>, None) : ty \in {"glucose", "insulin"}, a \in {1, 2, 30}}
DoseEntries ==
  {Entry("insulin", a, v, Some(<<"A">>)) : a \in {1, 30}, v \in {<<"7">>, <<"5">>}}
    \cup {Entry("insulin", 30, <<"x">>, Some(<<"A">>))}
PromptHistory == <<EntryAged(1), EntryAged(25), EntryAged(30)>>
\* Insulin entries on both sides of every bucket boundary, in UTC and in New
\* York, read by a server whose clock is on UTC or eight hours east of it.
HourAges == {1, 7, 12, 13, 18, 19, 30, 48}
HourEntries == {Entry("insulin", a, <<"7">>, Some(<<"A">>)) : a \in HourAges}
HourServerClocks == {[offsetNow |-> 0, offsetDayBefore |-> 0], [offsetNow |-> 8, offsetDayBefore |-> 8]}
PromptInputs ==
  {[usualMedications |-> m, rows |-> PromptHistory, timezone |-> None,
    serverTz |-> [offsetNow |-> 0, offsetDayBefore |-> 0]] : m \in MedValues}
    \cup {[usualMedications |-> MedString(<<>>), rows |-> r, timezone |-> None,
           serverTz |-> [offsetNow |-> 0, offsetDayBefore |-> 0]] :
            r \in SeqsUpTo(BrandEntries, MaxPromptEntries)
                     \cup SeqsUpTo(TypeEntries, MaxPromptEntries)
                     \cup SeqsUpTo(DoseEntries, MaxDoseEntries)}
    \cup {[usualMedications |-> MedString(<<>>), rows |-> r, timezone |-> z, serverTz |-> s] :
            r \in [1..MaxPromptEntries -> HourEntries],
            z \in {None} \cup {Some(x) : x \in ValidTimeZones},
            s \in HourServerClocks}

InitPrompt ==
  /\ pc = "loadEntries"
  /\ res = StreamBeforeEntries
  /\ dialog = ClosedDialog
  /\ others = <<>>
  /\ validation = None
  /\ users = {[id |-> "u1", email |-> "a@x"], [id |-> "u2", email |-> "b@x"]}
  /\ recommendations = <<>>
  /\ \E in \in PromptInputs :
       /\ req = Some([userId |-> "u1", body |-> Some([patientId |-> "p1", timezone |-> in.timezone, targetTime |-> None])])
       /\ serverTz = in.serverTz
       /\ patients = {[PatientRow("p1", "u1") EXCEPT !.usualMedications = in.usualMedications],
                      PatientRow("p2", "u2")}
       /\ patient = Some([PatientRow("p1", "u1") EXCEPT !.usualMedications = in.usualMedications])
       /\ entriesStore = [p \in {"p1", "p2"} |-> in.rows]
  /\ actualUserId = Some("u1")
  /\ entries = None
  /\ recentEntries = None
  /\ hasSufficientHistory = None
  /\ prompt = None
  /\ modelCalls = <<>>
  /\ completion = None
  /\ aiRecommendation = None
  /\ savedRecommendation = None

NextPrompt ==
  \/ LoadEntries
  \/ BuildPrompt

SpecPrompt == InitPrompt /\ [][NextPrompt]_vars

\* The client drops the connection of a run that has not ended.  Nothing in
\* the handler listens for it.
ClientDisconnects ==
  /\ pc \notin {"idle", "done"}
  /\ ~res.closed
  /\ res' = [res EXCEPT !.closed = TRUE, !.closedAt = Len(res.events)]
  /\ UNCHANGED <<others, dialog, pc, req, serverTz, validation, db, recommendations, locals>>

\* Handler runs of caller u1 for the own patient p1, from the validation of
\* the body on, in which the client may go away at any point.
DisconnectRows ==
  { <<EntryAged(1), EntryAged(25), EntryAged(100)>>,
    <<EntryAged(1), EntryAged(1), EntryAged(1)>> }

InitDisconnect ==
  /\ pc = "validate"
  /\ req = OwnRequest
  /\ res = [InitRes EXCEPT !.headersSent = TRUE]
  /\ dialog = ClosedDialog
  /\ others = <<>>
  /\ validation = None
  /\ serverTz = [offsetNow |-> 0, offsetDayBefore |-> 0]
  /\ InitTables
  /\ \E rows \in DisconnectRows : entriesStore = [p \in {"p1", "p2"} |-> rows]
  /\ actualUserId = Some("u1")
  /\ patient = None
  /\ entries = None
  /\ recentEntries = None
  /\ hasSufficientHistory = None
  /\ prompt = None
  /\ modelCalls = <<>>
  /\ completion = None
  /\ aiRecommendation = None
  /\ savedRecommendation = None

NextDisconnect ==
  \/ Validate
  \/ LoadPatient
  \/ LoadEntries
  \/ BuildPrompt
  \/ CallModel
  \/ ModelReturns
  \/ Save
  \/ SendResult
  \/ ClientDisconnects

SpecDisconnect == InitDisconnect /\ [][NextDisconnect]_vars

\* The history of the patient in the gateway runs.
GatewayRows == <<EntryAged(1), EntryAged(25), EntryAged(100)>>
GatewayTz == [offsetNow |-> 0, offsetDayBefore |-> 0]
GatewayEntries == findEntriesByPatientId(GatewayRows, DefaultLimit, DefaultOffset)
GatewayRecent == OccurredSince(GatewayEntries, 0 - WindowHours)

\* The stream when the model is about to be called.
StreamBeforeModel ==
  sendProgress(
    sendProgress(
      sendProgress(
        sendProgress(StreamBeforeEntries, "gathering-data", "Loading recent entries..."),
        "gathering-data", "Found " \o ToString(Len(GatewayRecent)) \o " recent entries"),
      "building-prompt", "Building AI prompt..."),
    "building-prompt", "Prompt built successfully")

\* The model answers of the gateway runs: every text of up to MaxTextLen of
\* these tokens, and every text made of two pieces, each no longer than the
\* shortest text with the pattern, that can hold the pattern twice.
GatewayTokens == {KeyTok, ":", " ", ".", "{", "}", "7"}
PatternTokens == {KeyTok, ":", "7", "5"}
ShortestPattern == <<KeyTok, ":", "7">>
GatewayTexts ==
  SeqsUpTo(GatewayTokens, MaxTextLen)
    \cup {a \o b : a, b \in SeqsUpTo(PatternTokens, Len(ShortestPattern))}
\* Answers that are JSON objects with a confidence: the levels in several
\* spellings, near misses, and values that are not strings; beside a
\* doseUnits that is a number, a string, null or absent.
Quoted(s) == <<QuoteTok>> \o s \o <<QuoteTok>>
ConfidenceValues ==
  {Quoted(s) : s \in {High, Medium, Low,
                       <<"H", "I", "G", "H">>, <<"H", "i", "g", "h">>, <<"h", "i", "G", "h">>,
                       <<"M", "E", "D", "I", "U", "M">>, <<"M", "e", "d", "i", "u", "m">>,
                       <<"L", "O", "W">>, <<"L", "o", "w">>, <<"l", "o">>,
                       <<"l", "o", "w", "s">>, <<" ", "l", "o", "w">>, <<"L", "O", "W", " ">>,
                       <<"H", "I", "G">>, <<"7">>, <<>>}}
    \cup {<<"7">>, <<"null">>}
DoseMembers ==
  {<<>>, <<KeyTok, ":", "7", ",">>, <<KeyTok, ":", "1", ".", "5", ",">>,
   <<KeyTok, ":", "null", ",">>, <<KeyTok, ":">> \o Quoted(<<"7">>) \o <<",">>}
ConfidenceAnswers ==
  {<<"{">> \o d \o <<ConfTok, ":">> \o c \o <<"}">> : d \in DoseMembers, c \in ConfidenceValues}
    \cup {<<"{", KeyTok, ":">> \o Quoted(<<"7">>) \o <<"}">>, Quoted(High), Quoted(<<"7">>),
          <<"{", ConfTok, ":">> \o Quoted(Low) \o <<",", ConfTok, ":">> \o Quoted(<<"H", "I", "G", "H">>) \o <<"}">>}
AllCompletions ==
  {NetworkFailure, StatusFailure, Completion(None)}
    \cup {Completion(Some(t)) : t \in GatewayTexts \cup ConfidenceAnswers}

\* The handler about to call the model.
InitGateway ==
  /\ pc = "callModel"
  /\ req = OwnRequest
  /\ res = StreamBeforeModel
  /\ dialog = ClosedDialog
  /\ others = <<>>
  /\ validation = None
  /\ serverTz = GatewayTz
  /\ InitTables
  /\ entriesStore = [p \in {"p1", "p2"} |-> GatewayRows]
  /\ actualUserId = Some("u1")
  /\ patient = Some(PatientRow("p1", "u1"))
  /\ entries = Some(GatewayEntries)
  /\ recentEntries = Some(GatewayRecent)
  /\ hasSufficientHistory = Some(checkSufficientHistory(GatewayEntries, OneDayAgo(0, GatewayTz)))
  /\ prompt = Some(buildRecommendationPrompt(PatientRow("p1", "u1"), GatewayRecent, "UTC"))
  /\ modelCalls = <<>>
  /\ completion = None
  /\ aiRecommendation = None
  /\ savedRecommendation = None

CallModelAny ==
  /\ pc = "callModel"
  /\ \E c \in AllCompletions : SendToModel(c)

NextGateway ==
  \/ CallModelAny
  \/ ModelReturns
  \/ Save
  \/ SendResult

SpecGateway == InitGateway /\ [][NextGateway]_vars

\* ---------------------------------------------------------- concurrent runs
\* What belongs to one call of createRecommendationHandler: its position, its
\* arguments req and res and its local variables.
Run ==
  [pc |-> pc, req |-> req, res |-> res, actualUserId |-> actualUserId,
   patient |-> patient, entries |-> entries, recentEntries |-> recentEntries,
   hasSufficientHistory |-> hasSufficientHistory, prompt |-> prompt,
   completion |-> completion, aiRecommendation |-> aiRecommendation,
   savedRecommendation |-> savedRecommendation]

IdleRun ==
  [pc |-> "idle", req |-> None, res |-> InitRes, actualUserId |-> None,
   patient |-> None, entries |-> None, recentEntries |-> None,
   hasSufficientHistory |-> None, prompt |-> None, completion |-> None,
   aiRecommendation |-> None, savedRecommendation |-> None]

\* The event loop goes on with another run: the handler yields at every
\* await, and only there.  The tables are shared, the rest is the run's own.
Resume(i) ==
  /\ others' = [others EXCEPT ![i] = Run]
  /\ pc' = others[i].pc
  /\ req' = others[i].req
  /\ res' = others[i].res
  /\ actualUserId' = others[i].actualUserId
  /\ patient' = others[i].patient
  /\ entries' = others[i].entries
  /\ recentEntries' = others[i].recentEntries
  /\ hasSufficientHistory' = others[i].hasSufficientHistory
  /\ prompt' = others[i].prompt
  /\ completion' = others[i].completion
  /\ aiRecommendation' = others[i].aiRecommendation
  /\ savedRecommendation' = others[i].savedRecommendation
  /\ UNCHANGED <<dialog, serverTz, validation, db, recommendations, modelCalls>>

Switch == \E i \in 1..Len(others) : Resume(i)

\* The requests of the concurrent runs: u1 for the own patient with and
\* without a time zone, u2 for the own patient.
ConcurrentRequests ==
  { [userId |-> "u1", body |-> Some([patientId |-> "p1", timezone |-> None, targetTime |-> None])],
    [userId |-> "u1", body |-> Some([patientId |-> "p1", timezone |-> Some("America/New_York"), targetTime |-> Some(PlannedIso)])],
    [userId |-> "u2", body |-> Some([patientId |-> "p2", timezone |-> None, targetTime |-> None])] }

RequestConcurrent ==
  /\ pc = "idle"
  /\ \E r \in ConcurrentRequests :
       /\ req' = Some(r)
       /\ actualUserId' = Some(r.userId)
  /\ res' = [res EXCEPT !.headersSent = TRUE]
  /\ pc' = "validate"
  /\ UNCHANGED <<dialog, others, serverTz, validation, db, recommendations, patient, entries,
                 recentEntries, hasSufficientHistory, prompt, modelCalls, completion,
                 aiRecommendation, savedRecommendation>>

ConcurrentCompletions ==
  { NetworkFailure,
    Completion(Some(<<"{", KeyTok, ":", "7", "}">>)),
    Completion(Some(<<KeyTok, ":", "5">>)) }

CallModelConcurrent ==
  /\ pc = "callModel"
  /\ \E c \in ConcurrentCompletions : SendToModel(c)

InitConcurrent ==
  /\ pc = "idle"
  /\ req = None
  /\ res = InitRes
  /\ dialog = ClosedDialog
  /\ others = [i \in 1..(MaxRuns - 1) |-> IdleRun]
  /\ validation = None
  /\ serverTz = [offsetNow |-> 0, offsetDayBefore |-> 0]
  /\ InitTables
  /\ entriesStore = [p \in {"p1", "p2"} |-> PromptHistory]
  /\ InitLocals

NextConcurrent ==
  \/ Switch
  \/ RequestConcurrent
  \/ Validate
  \/ LoadPatient
  \/ LoadEntries
  \/ BuildPrompt
  \/ CallModelConcurrent
  \/ ModelReturns
  \/ Save
  \/ SendResult

SpecConcurrent == InitConcurrent /\ [][NextConcurrent]_vars

\* ------------------------------------------- a foreign and a missing patient
\* Two requests of one caller that differ in the patient only: one names a
\* patient of another user, the other a patient that does not exist.
OthersPatient == [u1 |-> "p2", u2 |-> "p1"]
MissingPatient == "p9"

RequestPair ==
  /\ pc = "idle"
  /\ \E userId \in DOMAIN OthersPatient, z \in TimeZones, s \in {None, Some(PlannedIso)},
        p \in {"other", "missing"} :
       /\ others[1].req # None =>
            /\ userId = others[1].req[1].userId
            /\ z = others[1].req[1].body[1].timezone
            /\ s = others[1].req[1].body[1].targetTime
            /\ (p = "missing") <=> (others[1].req[1].body[1].patientId # MissingPatient)
       /\ req' = Some([userId |-> userId,
                       body |-> Some([patientId |-> IF p = "missing" THEN MissingPatient
                                                    ELSE OthersPatient[userId],
                                      timezone |-> z, targetTime |-> s])])
       /\ actualUserId' = Some(userId)
  /\ res' = [res EXCEPT !.headersSent = TRUE]
  /\ pc' = "validate"
  /\ UNCHANGED <<dialog, others, serverTz, validation, db, recommendations, patient, entries,
                 recentEntries, hasSufficientHistory, prompt, modelCalls, completion,
                 aiRecommendation, savedRecommendation>>

InitPair ==
  /\ pc = "idle"
  /\ req = None
  /\ res = InitRes
  /\ dialog = ClosedDialog
  /\ others = <<IdleRun>>
  /\ validation = None
  /\ serverTz = [offsetNow |-> 0, offsetDayBefore |-> 0]
  /\ InitTables
  /\ entriesStore = [p \in {"p1", "p2"} |-> PromptHistory]
  /\ InitLocals

NextPair ==
  \/ Switch
  \/ RequestPair
  \/ Validate
  \/ LoadPatient

SpecPair == InitPair /\ [][NextPair]_vars

\* ------------------------------------------------------- the safety check
\* Calls of validateRecommendation: new doses around 80, 100 and 120 percent
\* of a last dose of 10 IU and of 5 IU, 0, and doses outside the safe
\* range; a last dose that is missing, 0, 5 or 10; a low and a high
\* confidence.
NewDoses == {0 - 1, 0, 1, 4, 6, 7, 8, 9, 10, 11, 12, 13, 50, 51}
LastDoses == {None, Some(0), Some(5), Some(10)}
Confidences == {2, 3, 9}

InitValidate ==
  /\ pc = "idle"
  /\ req = None
  /\ res = InitRes
  /\ dialog = ClosedDialog
  /\ others = <<>>
  /\ serverTz = [offsetNow |-> 0, offsetDayBefore |-> 0]
  /\ InitTables
  /\ entriesStore = [p \in {"p1", "p2"} |-> <<>>]
  /\ InitLocals
  /\ \E d \in NewDoses, l \in LastDoses, c \in Confidences :
       validation = Some([recommendation |-> [doseUnits |-> d, confidence |-> c],
                          lastDose |-> l, result |-> None])

Validates ==
  /\ validation # None
  /\ validation[1].result = None
  /\ validation' = Some([validation[1] EXCEPT !.result =
                           Some(validateRecommendation(validation[1].recommendation,
                                                       validation[1].lastDose))])
  /\ UNCHANGED <<pc, req, res, dialog, others, serverTz, db, recommendations, locals>>

NextValidate == Validates

SpecValidate == InitValidate /\ [][NextValidate]_vars

\* ------------------------------------------------------------- the dialog
\* useEffect(() => { if (open) { ... } }, [open]): the dialog is opened and
\* its state reset.
OpenDialog ==
  /\ ~dialog.open
  /\ dialog' = [dialog EXCEPT !.open = TRUE, !.progress = "idle", !.error = None,
                              !.recommendation = None, !.showWarning = FALSE]
  /\ UNCHANGED <<others, pc, req, res, serverTz, validation, db, recommendations, locals>>

\* handleClose
handleClose ==
  /\ dialog.open
  /\ dialog' = [dialog EXCEPT !.open = FALSE, !.progress = "idle", !.error = None,
                              !.recommendation = None, !.showWarning = FALSE,
                              !.stale = dialog.reading]
  /\ UNCHANGED <<others, pc, req, res, serverTz, validation, db, recommendations, locals>>

\* The body of the fetch: patientId, targetTime.toISOString() and the time
\* zone of the browser.
DialogRequest ==
  Some([userId |-> "u1",
        body |-> Some([patientId |-> "p1", timezone |-> Some("UTC"),
                       targetTime |-> Some(PlannedIso)])])

\* startRecommendation up to the fetch: the buttons Get Recommendation and
\* Try Again are there in the states idle and error.  The request reaches
\* createRecommendationHandler as caller u1 for patient p1; one request is
\* under way at a time.
startRecommendation ==
  /\ dialog.open
  /\ dialog.progress \in {"idle", "error"}
  /\ ~dialog.reading
  /\ pc \in {"idle", "done"}
  /\ dialog.started < MaxRequests
  /\ dialog' = [dialog EXCEPT !.progress = "gathering-data", !.error = None,
                              !.recommendation = None, !.showWarning = FALSE,
                              !.reading = TRUE, !.read = 0, !.started = @ + 1,
                              !.stale = FALSE]
  /\ req' = DialogRequest
  /\ res' = [InitRes EXCEPT !.headersSent = TRUE]
  /\ pc' = "validate"
  /\ actualUserId' = Some("u1")
  /\ patient' = None
  /\ entries' = None
  /\ recentEntries' = None
  /\ hasSufficientHistory' = None
  /\ prompt' = None
  /\ completion' = None
  /\ aiRecommendation' = None
  /\ savedRecommendation' = None
  /\ UNCHANGED <<others, serverTz, validation, db, recommendations, modelCalls>>

\* if (newRecommendation.doseUnits && lastDose) { difference > threshold }:
\* whether setShowWarning(true) is called.
DoseDiffers(doseUnits, lastDose) ==
  /\ doseUnits # None /\ doseUnits[1] # 0
  /\ lastDose # None /\ lastDose[1] # 0
  /\ LET diff == IF doseUnits[1] >= lastDose[1] THEN doseUnits[1] - lastDose[1]
                  ELSE lastDose[1] - doseUnits[1]
     IN  100 * diff > DOSE_DIFFERENCE_WARNING_THRESHOLD * lastDose[1]

\* One event of the stream is read and handled by the switch.  The handler
\* ends every stream with a terminal event, on which the function returns.
ReceiveEvent ==
  /\ dialog.reading
  /\ dialog.read < Len(res.events)
  /\ LET data == res.events[dialog.read + 1]
         taken == [dialog EXCEPT !.read = @ + 1]
     IN  IF data.type = "progress"
         THEN dialog' = [taken EXCEPT !.progress = data.step]
         ELSE IF data.type = "error"
         THEN dialog' = [taken EXCEPT !.error = Some(data.error), !.progress = "error",
                                      !.reading = FALSE]
         ELSE dialog' = [taken EXCEPT
                           !.showWarning = IF DoseDiffers(data.data.doseUnits, dialog.lastDose)
                                           THEN TRUE ELSE @,
                           !.recommendation = Some(data.data),
                           !.progress = "complete",
                           !.reading = FALSE]
  /\ UNCHANGED <<others, pc, req, res, serverTz, validation, db, recommendations, locals>>

\* The dialog over a handler whose patient has or has not an insulin dose of
\* 10 units in the history, and whose model answers with a dose of 13, 11
\* or 0 units, with text, or not at all.
DialogRows ==
  { <<Entry("insulin", 30, <<"1", "0">>, Some(<<"A">>)), EntryAged(1), EntryAged(25)>>,
    <<EntryAged(1), EntryAged(25), EntryAged(30)>>,
    <<EntryAged(1)>> }
DialogCompletions ==
  {NetworkFailure}
    \cup {Completion(Some(<<"{", KeyTok, ":">> \o n \o <<"}">>)) :
            n \in {<<"1", "3">>, <<"1", "1">>, <<"0">>}}
    \cup {Completion(Some(<<KeyTok>>))}

InitDialog ==
  /\ pc = "idle"
  /\ req = None
  /\ res = InitRes
  /\ dialog = ClosedDialog
  /\ others = <<>>
  /\ validation = None
  /\ serverTz = [offsetNow |-> 0, offsetDayBefore |-> 0]
  /\ InitTables
  /\ \E rows \in DialogRows : entriesStore = [p \in {"p1", "p2"} |-> rows]
  /\ InitLocals

CallModelDialog ==
  /\ pc = "callModel"
  /\ \E c \in DialogCompletions : SendToModel(c)

NextDialog ==
  \/ OpenDialog
  \/ startRecommendation
  \/ Validate
  \/ LoadPatient
  \/ LoadEntries
  \/ BuildPrompt
  \/ CallModelDialog
  \/ ModelReturns
  \/ Save
  \/ SendResult
  \/ ReceiveEvent
  \/ handleClose

SpecDialog == InitDialog /\ [][NextDialog]_vars

\* The response is over before the handler has written its terminal event:
\* the server process, or a proxy in front of it, finishes the stream.
StreamClosedEarly ==
  /\ dialog.started > 0
  /\ pc \notin {"idle", "done"}
  /\ res' = End(res)
  /\ pc' = "done"
  /\ UNCHANGED <<others, dialog, req, serverTz, validation, db, recommendations, locals>>

\* const { done } = await reader.read(); if (done) break: every event has
\* been read and the stream is over; the loop and the function end, no
\* state is set.
StreamEnds ==
  /\ dialog.reading
  /\ dialog.read = Len(res.events)
  /\ res.ended
  /\ dialog' = [dialog EXCEPT !.reading = FALSE]
  /\ UNCHANGED <<others, pc, req, res, serverTz, validation, db, recommendations, locals>>

NextDialogLive ==
  \/ NextDialog
  \/ StreamClosedEarly
  \/ StreamEnds

\* The handler goes on from every await and the read loop takes every event
\* and the end of the stream; what the user does, and whether the stream is
\* cut, is left open.  BuildPrompt and ModelReturns are enabled exactly at
\* their pc and leave it, so that their weak fairness is that the run is
\* again and again not at that pc.
FairDialog ==
  /\ WF_vars(Validate)
  /\ WF_vars(LoadPatient)
  /\ WF_vars(LoadEntries)
  /\ []<>(pc # "buildPrompt")
  /\ WF_vars(CallModelDialog)
  /\ []<>(pc # "awaitModel")
  /\ WF_vars(Save)
  /\ WF_vars(SendResult)
  /\ WF_vars(ReceiveEvent)
  /\ WF_vars(StreamEnds)

SpecDialogLive == InitDialog /\ [][NextDialogLive]_vars /\ FairDialog

\* ------------------------------------------------------------- properties
Last(q) == q[Len(q)]
Terminal(e) == e.type \in {"error", "result"}
TerminalEvents == {i \in 1..Len(res.events) : Terminal(res.events[i])}
ResultEvents == {i \in 1..Len(res.events) : res.events[i].type = "result"}
ProgressEvents == {i \in 1..Len(res.events) : res.events[i].type = "progress"}
EndsWith(type) == res.events # <<>> /\ Last(res.events).type = type

\* C1: in every run that has opened the stream, whatever way it ends, exactly
\* one terminal event (a result or an error) is written, it is the last event,
\* the stream is ended with it, and nothing is written after it.
C1_OneTerminalEventThenClosed ==
  res.headersSent =>
    /\ Cardinality(TerminalEvents) <= 1
    /\ \A i \in TerminalEvents : i = Len(res.events)
    /\ res.ended <=> TerminalEvents # {}
    /\ res.lateWrites = 0
    /\ pc = "done" => res.ended /\ Cardinality(TerminalEvents) = 1

\* A run ended by an unexpected exception after progress had been streamed.
C1_Witness ==
  /\ pc = "done"
  /\ EndsWith("error")
  /\ Last(res.events).error = "Internal server error"
  /\ Len(res.events) > 1

\* C2: when the sufficiency check fails, the model is never called, no
\* Recommendation is stored, and the run ends with an error event carrying the
\* check's own message.
C2_InsufficientHistoryAborts ==
  (hasSufficientHistory # None /\ ~hasSufficientHistory[1].hasSufficientHistory) =>
    /\ modelCalls = <<>>
    /\ completion = None
    /\ recommendations = <<>>
    /\ pc = "done"
    /\ EndsWith("error")
    /\ Last(res.events).error = hasSufficientHistory[1].message
    /\ Last(res.events).error \in
         {NoHistoryMessage, AllTodayMessage} \cup {FewEntriesMessage(n) : n \in 1..(MinEntries - 1)}

\* Three or more entries, all too recent: the run has stopped at the gate.
C2_Witness ==
  /\ hasSufficientHistory # None
  /\ hasSufficientHistory[1].message = AllTodayMessage
  /\ pc = "done"

\* The caller's user id: the session's id, or the id of the user with the
\* session's email.
CallerId ==
  IF IsEmail(req[1].userId) THEN
    IF findUserByEmail(req[1].userId) = None THEN None
    ELSE Some(findUserByEmail(req[1].userId)[1].id)
  ELSE Some(req[1].userId)

\* The request names a patient that does not exist or that the caller does
\* not own.
ForeignPatient ==
  /\ req # None
  /\ req[1].body # None
  /\ LET found == findPatientById(req[1].body[1].patientId)
     IN  found = None \/ Some(found[1].userId) # CallerId

\* C3: for a request naming a patient that does not exist or belongs to
\* another user, the model is never called, no Recommendation is stored, no
\* result event is written, and the run ends with an error event.
C3_ForeignPatientRefused ==
  ForeignPatient =>
    /\ modelCalls = <<>>
    /\ recommendations = <<>>
    /\ ResultEvents = {}
    /\ pc = "done" => EndsWith("error")

\* An existing patient of another user was read and the run refused.
C3_Witness ==
  /\ pc = "done"
  /\ patient # None
  /\ Some(patient[1].userId) # CallerId
  /\ EndsWith("error")

\* C4: a run that ends with a result has stored exactly one Recommendation;
\* a run that ends with an error has stored none.
C4_RecordIffResult ==
  pc = "done" =>
    /\ EndsWith("result") => Len(recommendations) = 1
    /\ EndsWith("error") => Len(recommendations) = 0

\* A run that failed after the model had been called.
C4_Witness ==
  /\ pc = "done"
  /\ EndsWith("error")
  /\ modelCalls # <<>>
  /\ recommendations = <<>>

StepNames == {PROGRESS_STEPS[k] : k \in 1..Len(PROGRESS_STEPS)}
StepIndex(step) == CHOOSE k \in 1..Len(PROGRESS_STEPS) : PROGRESS_STEPS[k] = step

\* C5: the stages of successive progress events never go backward and never
\* skip a stage of gathering-data, building-prompt, waiting-for-model,
\* parsing-response; a run ending in a result has shown all four, in that
\* order, and then the one result.
C5_StagesInOrder ==
  /\ \A i \in ProgressEvents : res.events[i].step \in StepNames
  /\ \A i, j \in ProgressEvents :
       i < j => StepIndex(res.events[i].step) <= StepIndex(res.events[j].step)
  /\ \A j \in ProgressEvents :
       StepIndex(res.events[j].step) > 1 =>
         \E i \in ProgressEvents :
           i < j /\ StepIndex(res.events[i].step) = StepIndex(res.events[j].step) - 1
  /\ EndsWith("result") =>
       /\ \A k \in 1..Len(PROGRESS_STEPS) :
            \E i \in ProgressEvents : res.events[i].step = PROGRESS_STEPS[k]
       /\ ProgressEvents = 1..(Len(res.events) - 1)
       /\ ResultEvents = {Len(res.events)}

\* A complete successful run.
C5_Witness ==
  /\ pc = "done"
  /\ EndsWith("result")
  /\ Cardinality(ProgressEvents) > Len(PROGRESS_STEPS)

\* The model call failed: network failure, non-2xx answer, or no content.
ModelCallFailed ==
  /\ completion # None
  /\ \/ completion[1].kind \in {"network", "status"}
     \/ completion[1].content = None
     \/ completion[1].content = Some(<<>>)

\* The save step was reached: its progress event is on the stream.
SaveAttempted ==
  \E i \in ProgressEvents : res.events[i].step = "parsing-response"

\* C6: when the model call fails, the gateway returns the fallback (dose 8,
\* confidence low) instead of throwing, and the run ends with a result unless
\* the save fails.
C6_GatewayFallback ==
  ModelCallFailed =>
    /\ aiRecommendation # None =>
         /\ aiRecommendation[1].doseUnits = Some(FallbackDose * Scale)
         /\ aiRecommendation[1].confidence = Some("low")
    /\ pc \in {"awaitModel", "save", "sendResult", "done"}
    /\ pc = "done" =>
         /\ aiRecommendation # None
         /\ SaveAttempted
         /\ recommendations # <<>> =>
              /\ EndsWith("result")
              /\ Last(res.events).data.doseUnits = Some(FallbackDose * Scale)
              /\ Last(res.events).data.confidence = Some("low")

\* A run with a network failure that ended with a result.
C6_Witness ==
  /\ pc = "done"
  /\ completion = Some(NetworkFailure)
  /\ EndsWith("result")

\* C8: when saving the Recommendation fails, the run ends with an error event
\* and no result event is written, although the model call succeeded.
C8_SaveFailureIsError ==
  (pc = "done" /\ aiRecommendation # None /\ recommendations = <<>>) =>
    /\ EndsWith("error")
    /\ ResultEvents = {}

\* The model answered with JSON and the save then failed.
C8_Witness ==
  /\ pc = "done"
  /\ completion = Some(Completion(Some(<<"{", KeyTok, ":", "7", "}">>)))
  /\ aiRecommendation # None
  /\ recommendations = <<>>

\* The store runs and the gateway runs start in states of handler runs: a
\* handler run at the same point, with the same request, rows and server
\* clock, is in the state they start from.
LaterStartsAreHandlerStates ==
  /\ (pc = "loadEntries" /\ req = OwnRequest) =>
       /\ res = StreamBeforeEntries
       /\ actualUserId = Some("u1")
       /\ patient = Some(PatientRow("p1", "u1"))
  /\ (pc = "callModel" /\ req = OwnRequest /\ entriesStore["p1"] = GatewayRows
        /\ serverTz = GatewayTz) =>
       /\ res = StreamBeforeModel
       /\ entries = Some(GatewayEntries)
       /\ recentEntries = Some(GatewayRecent)
       /\ hasSufficientHistory =
            Some(checkSufficientHistory(GatewayEntries, OneDayAgo(0, GatewayTz)))
       /\ prompt = Some(buildRecommendationPrompt(PatientRow("p1", "u1"),
                                                  GatewayRecent, "UTC"))

LaterStartsReached ==
  /\ pc = "callModel"
  /\ req = OwnRequest
  /\ entriesStore["p1"] = GatewayRows
  /\ serverTz = GatewayTz

\* The answer of the model is a text that JSON.parse rejects.
MalformedAnswer ==
  /\ completion # None
  /\ completion[1].kind = "completion"
  /\ completion[1].content # None
  /\ completion[1].content # Some(<<>>)
  /\ JSONparse(completion[1].content[1]).kind = "SyntaxError"

\* The "doseUnits": <number> pattern stands at i with its first digit at k.
PatternAt(t, i, k) ==
  /\ t[i] = KeyTok
  /\ k <= Len(t)
  /\ t[k] \in Digits
  /\ \E j \in (i + 1)..(k - 1) :
       /\ t[j] = ":"
       /\ \A x \in ((i + 1)..(k - 1)) \ {j} : t[x] = " "

HasPattern(t) == \E i, k \in 1..Len(t) : PatternAt(t, i, k)

\* The first digit of the leftmost pattern.
FirstPatternDigit(t) ==
  LET i == CHOOSE a \in 1..Len(t) :
             /\ \E k \in 1..Len(t) : PatternAt(t, a, k)
             /\ \A b \in 1..(a - 1) : ~\E k \in 1..Len(t) : PatternAt(t, b, k)
  IN  CHOOSE k \in 1..Len(t) : PatternAt(t, i, k)

\* The last position of the longest run of digits starting at k.
RunEnd(t, k) ==
  CHOOSE e \in k..Len(t) :
    /\ \A x \in k..e : t[x] \in Digits
    /\ e = Len(t) \/ t[e + 1] \notin Digits

\* The digits t[a..e] read as a decimal integer.
Decimal(t, a, e) ==
  LET place[x \in a..e] ==
        DigitValue(t[x]) * Pow10(e - x) + (IF x = e THEN 0 ELSE place[x + 1])
  IN  place[a]

\* The number written at k, digits and an optional fraction, in units of 1/Scale.
NumberAt(t, k) ==
  LET e == RunEnd(t, k)
  IN  IF e + 2 <= Len(t) /\ t[e + 1] = "." /\ t[e + 2] \in Digits
      THEN Decimal(t, k, e) * Scale
             + (Decimal(t, e + 2, RunEnd(t, e + 2)) * Scale) \div Pow10(RunEnd(t, e + 2) - e - 1)
      ELSE Decimal(t, k, e) * Scale

ExpectedDose(t) ==
  IF HasPattern(t) THEN NumberAt(t, FirstPatternDigit(t)) ELSE FallbackDose * Scale

\* C7: for an answer that is not valid JSON the gateway yields the number
\* after the first "doseUnits": pattern of the text (8 without one),
\* confidence low, the parse-failure safety note and the whole raw text as
\* reasoning; the run does not end in an error on account of the answer: it
\* reaches the save and ends with a result once the row is stored.
C7_MalformedAnswerAbsorbed ==
  MalformedAnswer =>
    /\ aiRecommendation # None =>
         /\ aiRecommendation[1].doseUnits = Some(ExpectedDose(completion[1].content[1]))
         /\ aiRecommendation[1].confidence = Some("low")
         /\ aiRecommendation[1].safetyNotes = Some(<<"Unable to parse structured response">>)
         /\ aiRecommendation[1].reasoning = completion[1].content
    /\ pc = "done" =>
         /\ aiRecommendation # None
         /\ SaveAttempted
         /\ recommendations # <<>> =>
              /\ EndsWith("result")
              /\ Last(res.events).data.doseUnits = Some(ExpectedDose(completion[1].content[1]))
              /\ Last(res.events).data.reasoning = completion[1].content

\* The answer "doseUnits":7.7 outside any JSON object gave a result with dose 7.7.
C7_Witness ==
  /\ pc = "done"
  /\ completion = Some(Completion(Some(<<KeyTok, ":", "7", ".", "7">>)))
  /\ EndsWith("result")
  /\ Last(res.events).data.doseUnits = Some((77 * Scale) \div 10)

\* The patient named by the request.
RequestedPatient == req[1].body[1].patientId

\* C9: the sufficiency check and the 72-hour window are computed over every
\* entry stored for the patient, however many there are and in whatever order
\* they were last updated.
C9_AllStoredEntriesUsed ==
  entries # None =>
    /\ Len(entries[1]) = Len(EntryRows(RequestedPatient))
    /\ recentEntries[1] = OccurredSince(EntryRows(RequestedPatient), 0 - WindowHours)
    /\ hasSufficientHistory[1] =
         checkSufficientHistory(EntryRows(RequestedPatient), OneDayAgo(0, serverTz))

\* C10: the check answers no-history for 0 entries, the entry count for 1 or
\* 2, all-from-today for 3 or more entries none of which occurred earlier
\* than 24 hours before now, and sufficient otherwise.
C10_SufficiencyRule ==
  hasSufficientHistory # None =>
    LET es == entries[1]
        olderThanADay == \E i \in 1..Len(es) : es[i].occurredAt < 0 - 24
        check == hasSufficientHistory[1]
    IN  /\ Len(es) = 0 =>
             ~check.hasSufficientHistory /\ check.message = NoHistoryMessage
        /\ Len(es) \in {1, 2} =>
             ~check.hasSufficientHistory /\ check.message = FewEntriesMessage(Len(es))
        /\ (Len(es) >= 3 /\ ~olderThanADay) =>
             ~check.hasSufficientHistory /\ check.message = AllTodayMessage
        /\ (Len(es) >= 3 /\ olderThanADay) => check.hasSufficientHistory

\* ------------------------------------------------------ the rendered prompt
\* The entries of the window the prompt was built from, by type.
WindowOfType(type) == OfType(prompt[1].entries, type)
Latest(es) == CHOOSE e \in {es[i] : i \in 1..Len(es)} : \A j \in 1..Len(es) : e.occurredAt >= es[j].occurredAt
GlucoseAfterInsulin ==
  /\ prompt # None
  /\ WindowOfType("glucose") # <<>>
  /\ WindowOfType("insulin") # <<>>
  /\ Latest(WindowOfType("glucose")).occurredAt > Latest(WindowOfType("insulin")).occurredAt

\* C11: the prompt holds the stale-reading guidance when the latest glucose
\* entry of the window is from before the latest insulin entry, and does not
\* hold it when the latest glucose entry is from after the latest insulin
\* entry.
C11_StaleGuidanceOnlyWhenStale ==
  /\ (/\ prompt # None
      /\ WindowOfType("glucose") # <<>>
      /\ WindowOfType("insulin") # <<>>
      /\ Latest(WindowOfType("glucose")).occurredAt < Latest(WindowOfType("insulin")).occurredAt)
       => prompt[1].staleReadingRule
  /\ GlucoseAfterInsulin => ~prompt[1].staleReadingRule

\* --------------------------------------------- failures while gathering data
\* The body was checked and rejected: the caller was resolved, the run is
\* over and the body does not fit the schema.
ValidationFailed ==
  /\ pc = "done"
  /\ actualUserId # None
  /\ ~recommendSchemaOk(req[1].body)
HistoryInsufficient ==
  /\ hasSufficientHistory # None
  /\ ~hasSufficientHistory[1].hasSufficientHistory
GenericFailure == "Internal server error"
OnlyGatheringData ==
  \A i \in ProgressEvents : res.events[i].step = "gathering-data"

\* C12: a body that fails validation and an insufficient history each end the
\* run with an error event on the open stream that is not the generic
\* failure, with no progress event of a stage after gathering-data before it.
C12_FailuresWhileGatheringData ==
  (ValidationFailed \/ HistoryInsufficient) =>
    /\ res.headersSent
    /\ EndsWith("error")
    /\ Cardinality(TerminalEvents) = 1
    /\ Last(res.events).error # GenericFailure
    /\ ValidationFailed => Last(res.events).error = "Validation failed"
    /\ HistoryInsufficient => Last(res.events).error = hasSufficientHistory[1].message
    /\ OnlyGatheringData

C12_Witness ==
  /\ ValidationFailed
  /\ EndsWith("error")
  /\ Last(res.events).error = "Validation failed"

\* ------------------------------------------------------ a client that leaves
\* C13: once the client has dropped the connection the handler writes no
\* further event to it, and a model call that is in flight stays in flight
\* until it returns.
C13_NoWritesAfterDisconnect ==
  /\ res.closed => Len(res.events) = res.closedAt
  /\ (res.closed /\ pc = "awaitModel") => completion # None

\* ------------------------------------------------- the dose-difference warning
\* The most recent insulin dose of the patient's history, when there is one.
InsulinHistory == OfType(entriesStore["p1"], "insulin")
PriorDose ==
  IF InsulinHistory = <<>> THEN None ELSE parseFloat(Latest(InsulinHistory).value)
Distance(a, b) == IF a >= b THEN a - b ELSE b - a

\* C14: when a result has arrived and the patient has a most recent prior
\* dose p > 0, the dialog shows the dose-difference warning exactly when
\* |new - p| / p is more than 20 percent.
C14_WarningWhenDoseDiffers ==
  (/\ dialog.progress = "complete"
   /\ dialog.recommendation # None
   /\ dialog.recommendation[1].doseUnits # None
   /\ PriorDose # None
   /\ PriorDose[1] > 0) =>
    (dialog.showWarning <=>
       100 * Distance(dialog.recommendation[1].doseUnits[1], PriorDose[1])
         > DOSE_DIFFERENCE_WARNING_THRESHOLD * PriorDose[1])

\* ------------------------------------------------- events after the close
\* An event of the stream is taken by the read loop in this step.
EventTaken == dialog.reading /\ dialog'.read = dialog.read + 1

\* C28: once the dialog has been closed, the events of the request that was
\* under way at the close change neither the progress state nor the error
\* nor the recommendation of the dialog, while it is closed and after it
\* is opened again.
C28_NoEffectOfEventsAfterClose ==
  [][(dialog.stale /\ EventTaken) =>
       /\ dialog'.progress = dialog.progress
       /\ dialog'.error = dialog.error
       /\ dialog'.recommendation = dialog.recommendation]_vars

\* ------------------------------------------------------ the dialog settles
Settled == dialog.progress \in {"complete", "error"}

\* C29: once the user has started a request, the dialog reaches complete or
\* error, also when the stream ends without a terminal event.
C29_DialogEventuallySettles == dialog.reading ~> Settled

\* ------------------------------------------------------ dose-change check
Flagged == \E i \in 1..Len(validation[1].result[1].warnings) :
             validation[1].result[1].warnings[i] = "change"

\* C30: validateRecommendation gives the dose-change warning exactly when a
\* last dose p > 0 is given and |new - p| / p is more than 20 percent, for
\* every new dose, 0 included; a change of exactly 20 percent gives none.
C30_ChangeWarningExactlyAbove20 ==
  (validation # None /\ validation[1].result # None) =>
    LET new == validation[1].recommendation.doseUnits
        p == validation[1].lastDose
    IN  Flagged <=> (/\ p # None
                     /\ p[1] > 0
                     /\ 100 * Distance(new, p[1]) > 20 * p[1])

\* ------------------------------------------------------- the stored record
\* The text the model returned in this run, when it returned one that is
\* not empty.
RawResponse ==
  IF completion # None /\ completion[1].kind = "completion" /\ ~NoContent(completion[1])
  THEN completion[1].content ELSE None

\* C15: every record created stores the prompt that was sent to the model
\* and the raw text the model returned for it.
C15_RecordKeepsPromptAndRawResponse ==
  \A i \in 1..Len(recommendations) :
    /\ modelCalls # <<>>
    /\ recommendations[i].prompt = Last(modelCalls)
    /\ RawResponse # None => recommendations[i].response = RawResponse[1]

\* C16: a run that passes the history gate and ends in a result carries a
\* number as doseUnits and a confidence, whatever the model did.
C16_ResultHasDoseAndConfidence ==
  (/\ hasSufficientHistory # None
   /\ hasSufficientHistory[1].hasSufficientHistory
   /\ EndsWith("result")) =>
    /\ Last(res.events).data.doseUnits # None
    /\ Last(res.events).data.confidence # None

\* ------------------------------------------------------- typed answer fields
\* The answer of the model parsed as JSON without an exception in the parse
\* or in reading its fields.
ParsedAnswer ==
  IF completion # None /\ completion[1].kind = "completion" /\ ~NoContent(completion[1])
  THEN JSONparse(completion[1].content[1])
  ELSE [kind |-> "SyntaxError"]

ParseSucceeded == ParsedAnswer.kind \notin {"SyntaxError", "null"}

CasePairs ==
  {<<"H", "h">>, <<"I", "i">>, <<"G", "g">>, <<"M", "m">>, <<"E", "e">>,
   <<"D", "d">>, <<"U", "u">>, <<"L", "l">>, <<"O", "o">>, <<"W", "w">>}

EqualIgnoringCase(a, b) ==
  /\ Len(a) = Len(b)
  /\ \A i \in 1..Len(a) : a[i] = b[i] \/ <<a[i], b[i]>> \in CasePairs \/ <<b[i], a[i]>> \in CasePairs

Levels == [high |-> High, medium |-> Medium, low |-> Low]

\* The confidence the answer states: the level its string equals up to
\* case, nothing for any other value.
StatedLevel(parsed) ==
  IF /\ parsed.kind = "object"
     /\ parsed.confidence.kind = "string"
     /\ \E l \in DOMAIN Levels : EqualIgnoringCase(parsed.confidence.chars, Levels[l])
  THEN Some(CHOOSE l \in DOMAIN Levels : EqualIgnoringCase(parsed.confidence.chars, Levels[l]))
  ELSE None

\* C21: when the answer parses as JSON, the recommendation has a doseUnits
\* exactly when the answer's doseUnits is a number (and then that number),
\* and its confidence is the level the answer states up to case, HIGH
\* giving high, and undefined for every other value; no confidence other
\* than high, medium and low is produced.
C21_FieldsCoercedOnParse ==
  (ParseSucceeded /\ aiRecommendation # None) =>
    /\ aiRecommendation[1].doseUnits =
         (IF ParsedAnswer.kind = "object" /\ ParsedAnswer.doseUnits.kind = "number"
          THEN Some(ParsedAnswer.doseUnits.value) ELSE None)
    /\ aiRecommendation[1].confidence = StatedLevel(ParsedAnswer)
    /\ aiRecommendation[1].confidence \in {None, Some("high"), Some("medium"), Some("low")}

\* The answer {"doseUnits":"7","confidence":"HIGH"} gave confidence high and
\* no doseUnits.
C21_Witness ==
  /\ completion = Some(Completion(Some(<<"{", KeyTok, ":">> \o Quoted(<<"7">>)
                        \o <<",", ConfTok, ":">> \o Quoted(<<"H", "I", "G", "H">>) \o <<"}">>)))
  /\ aiRecommendation # None
  /\ aiRecommendation[1].confidence = Some("high")
  /\ aiRecommendation[1].doseUnits = None

\* --------------------------------------------------------------- one call
AfterTheCall == {"awaitModel", "save", "sendResult", "done"}

TargetTimeGivenOrAbsent ==
  /\ req # None
  /\ req[1].body # None
  /\ req[1].body[1].targetTime \in {None, Some(PlannedIso)}

\* The instant the dose is planned for: the one supplied, else the instant
\* of the request.
PlannedFor == IF req[1].body[1].targetTime = None THEN Some(0) ELSE Some(PlannedTime)

\* C24: a run that ends with a result carries in the result event the target
\* time the caller supplied (the request time without one), and the record
\* the run created stores the same target time.
C24_TargetTimeInResultAndRecord ==
  (TargetTimeGivenOrAbsent /\ EndsWith("result")) =>
    /\ Last(res.events).data.targetTime = PlannedFor
    /\ \E i \in 1..Len(recommendations) :
         /\ recommendations[i].id = Last(res.events).data.id
         /\ recommendations[i].targetTime = PlannedFor

\* ---------------------------------------------------------- concurrent runs
AllRuns == <<Run>> \o others
UserTimezone(r) ==
  IF r.req[1].body[1].timezone = None THEN "UTC" ELSE r.req[1].body[1].timezone[1]
\* The run r got as far as the insert and everything it stored is its own:
\* the entries of its patient, the prompt built from them, the answer the
\* model gave to that prompt.
OwnRecord(r, rec) ==
  /\ r.savedRecommendation = Some(rec)
  /\ rec.patientId = r.req[1].body[1].patientId
  /\ r.entries = Some(findEntriesByPatientId(entriesStore[rec.patientId], DefaultLimit, DefaultOffset))
  /\ r.recentEntries = Some(OccurredSince(r.entries[1], 0 - WindowHours))
  /\ r.prompt = Some(buildRecommendationPrompt(r.patient[1], r.recentEntries[1], UserTimezone(r)))
  /\ rec.prompt = r.prompt[1]
  /\ r.aiRecommendation = Some(getAIRecommendation(r.completion[1]))
  /\ rec.doseUnits = r.aiRecommendation[1].doseUnits
  /\ rec.reasoning = r.aiRecommendation[1].reasoning
  /\ rec.confidence = r.aiRecommendation[1].confidence
RunsWithResult ==
  {k \in 1..Len(AllRuns) :
     AllRuns[k].res.events # <<>> /\ Last(AllRuns[k].res.events).type = "result"}
RunsThatSaved == {k \in 1..Len(AllRuns) : AllRuns[k].savedRecommendation # None}

\* C17: however concurrent runs interleave, every record is the record of
\* one run, with that run's patient, prompt and model answer; the runs that
\* saved have a record each, so N runs that end in a result leave N distinct
\* records.
C17_RunsKeepTheirOwn ==
  /\ \A i \in 1..Len(recommendations) :
       \E k \in 1..Len(AllRuns) : OwnRecord(AllRuns[k], recommendations[i])
  /\ \A k \in RunsThatSaved :
       \E i \in 1..Len(recommendations) : AllRuns[k].savedRecommendation = Some(recommendations[i])
  /\ \A i, j \in 1..Len(recommendations) : i # j => recommendations[i].id # recommendations[j].id
  /\ Cardinality(RunsThatSaved) = Len(recommendations)
  /\ RunsWithResult \subseteq RunsThatSaved
  /\ \A k \in RunsWithResult :
       [Last(AllRuns[k].res.events).data EXCEPT !.targetTime = None]
         = AllRuns[k].savedRecommendation[1]

C17_Witness ==
  /\ Cardinality(RunsWithResult) = MaxRuns
  /\ Len(recommendations) = MaxRuns
  /\ recommendations[1].prompt # recommendations[2].prompt
  /\ recommendations[1].doseUnits # recommendations[2].doseUnits
  /\ recommendations[1].patientId = recommendations[2].patientId

\* ------------------------------------------------ foreign versus missing
IsPrefix(a, b) == Len(a) <= Len(b) /\ SubSeq(b, 1, Len(a)) = a

\* The lookup of the run threw: the stream ends with the generic failure.
LookupThrew(r) == r.res.events # <<>> /\ Last(r.res.events) = [type |-> "error", error |-> GenericFailure]

\* The two runs are the pair: same caller, one patient of another user, one
\* patient that does not exist.
PairOfRequests ==
  /\ req # None
  /\ others[1].req # None
  /\ req[1].userId = others[1].req[1].userId
  /\ {req[1].body[1].patientId, others[1].req[1].body[1].patientId}
       = {MissingPatient, OthersPatient[req[1].userId]}

\* C27: of two requests of one caller, one for a patient of another user and
\* one for a patient that does not exist, the streams never differ: at
\* every moment one is the beginning of the other, and when both runs are
\* over they hold the same events, the same progress events and the same
\* error text, unless a lookup itself failed.
C27_ForeignAndMissingAlike ==
  (PairOfRequests /\ ~LookupThrew(Run) /\ ~LookupThrew(others[1])) =>
    /\ IsPrefix(res.events, others[1].res.events) \/ IsPrefix(others[1].res.events, res.events)
    /\ (pc = "done" /\ others[1].pc = "done") =>
         /\ res.events = others[1].res.events
         /\ res.ended /\ others[1].res.ended
         /\ EndsWith("error")
         /\ modelCalls = <<>>

\* Both runs are over: the one for the patient of another user found the
\* row, the other found none, and both streams end with an error.
C27_Witness ==
  /\ PairOfRequests
  /\ pc = "done" /\ others[1].pc = "done"
  /\ ~LookupThrew(Run) /\ ~LookupThrew(others[1])
  /\ {patient, others[1].patient} = {None, Some(PatientRow("p2", "u2"))}
  /\ Len(res.events) = 3

\* ------------------------------------------------------- non-empty window
\* C26: when the prompt has gone out to the model, the 72-hour window the
\* prompt was built from holds at least one entry.
C26_ModelNeverAskedOnEmptyWindow ==
  modelCalls # <<>> =>
    /\ recentEntries # None
    /\ recentEntries[1] # <<>>
    /\ Last(modelCalls).entries # <<>>

\* ------------------------------------------------------------ stored data
\* C25: no step of a run changes the users, the patients or the entries, and
\* a step leaves the recommendations as they are or appends one row to
\* them: the rows that exist keep their place and their content.  A run
\* appends at most once, so there are never more rows than runs that
\* reached the insert.
C25_OnlyAppendsOneRecommendation ==
  /\ [][/\ users' = users
        /\ patients' = patients
        /\ entriesStore' = entriesStore
        /\ \/ recommendations' = recommendations
           \/ /\ Len(recommendations') = Len(recommendations) + 1
              /\ SubSeq(recommendations', 1, Len(recommendations)) = recommendations
              /\ pc = "save"
              /\ savedRecommendation = None
              /\ savedRecommendation' = Some(Last(recommendations'))]_vars
  /\ [](Len(recommendations) <= Cardinality(RunsThatSaved))

\* The second of two runs has appended its row behind the row of the first.
C25_Witness ==
  /\ Len(recommendations) = 2
  /\ savedRecommendation = Some(recommendations[2])
  /\ \E k \in 1..Len(others) : others[k].savedRecommendation = Some(recommendations[1])
  /\ users = {[id |-> "u1", email |-> "a@x"], [id |-> "u2", email |-> "b@x"]}
  /\ entriesStore = [p \in {"p1", "p2"} |-> PromptHistory]

\* ------------------------------------------------- the prompt's medications
\* The history gate was passed and buildRecommendationPrompt has been called
\* with a time zone it can render.
PromptBuilderCalled ==
  /\ hasSufficientHistory # None
  /\ hasSufficientHistory[1].hasSufficientHistory
  /\ pc # "buildPrompt"
  /\ UserTimezone(Run) \in ValidTimeZones
\* usualMedications is a list or a string that decodes to a list.
IsMedicationList(usualMedications) ==
  \/ usualMedications.kind = "array"
  \/ /\ usualMedications.kind = "string"
     /\ ParseMedications(usualMedications.text).kind = "array"

\* C18: whatever the patient's medications field holds, building the prompt
\* completes without throwing, and a value that is no list and does not
\* decode to one is taken as the empty list.
C18_MedicationsNeverThrow ==
  PromptBuilderCalled =>
    /\ prompt # None
    /\ ~IsMedicationList(patient[1].usualMedications) => prompt[1].medications = <<>>

\* --------------------------------------------------- the prompt's patterns
Buckets == {"morning", "afternoon", "evening"}
\* The trimmed brands of the insulin entries of the window in a bucket, in
\* the order of the entries.
WindowBrands(bucket) ==
  BrandsOf(BucketEntries(WindowOfType("insulin"), bucket, prompt[1].timeZone))
FirstIndex(arr, x) == CHOOSE i \in 1..Len(arr) : arr[i] = x /\ \A j \in 1..(i - 1) : arr[j] # x

\* C19: the brand reported for a bucket is a non-empty trimmed brand of the
\* bucket with the highest count, and of several brands with the highest
\* count the one met first in the order of the entries.
C19_MostCommonBrandFirstOnTies ==
  (prompt # None /\ prompt[1].patternAnalysis.kind = "patterns") =>
    \A bucket \in Buckets :
      LET line == prompt[1].patternAnalysis[bucket]
          brands == WindowBrands(bucket)
      IN  line # None =>
            /\ line[1].brand # <<>>
            /\ Trim(line[1].brand) = line[1].brand
            /\ \E i \in 1..Len(brands) : brands[i] = line[1].brand
            /\ \A i \in 1..Len(brands) :
                 /\ Count(brands, brands[i]) <= Count(brands, line[1].brand)
                 /\ Count(brands, brands[i]) = Count(brands, line[1].brand)
                      => FirstIndex(brands, line[1].brand) <= i

\* ------------------------------------------------------------ time of day
\* The hour of the day of an instant on a clock offset hours from UTC.
ClockHour(instant, offset) ==
  LET day == (instant + offset) \div CalendarDayHours
  IN  (instant + offset) - day * CalendarDayHours

SuppliedOffset ==
  IF prompt[1].timeZone = "America/New_York" THEN 0 - HoursWestNewYork ELSE 0

BucketHours ==
  [morning |-> 6..11, afternoon |-> 12..17, evening |-> (18..23) \cup (0..5)]

\* The insulin entries of the window whose hour in the supplied timezone is
\* one of the hours of the bucket.
InHours(bucket) ==
  LET es == WindowOfType("insulin")
  IN  {i \in 1..Len(es) : ClockHour(es[i].occurredAt, SuppliedOffset) \in BucketHours[bucket]}

\* C23: each insulin entry of the window is in exactly one of the three
\* buckets, the one that holds its hour of the day in the timezone of the
\* request (UTC without one): the line of a bucket counts the entries of
\* hours 6-11, 12-17, or 18-23 and 0-5 on that clock, whatever the clock of
\* the server.
C23_BucketsByHourInSuppliedZone ==
  prompt # None =>
    LET es == WindowOfType("insulin")
        tz == prompt[1].timeZone
        analysis == prompt[1].patternAnalysis
    IN  /\ prompt[1].timeZone =
             (IF req[1].body[1].timezone = None THEN "UTC" ELSE req[1].body[1].timezone[1])
        /\ \A bucket \in Buckets :
             LET inHours == InHours(bucket)
             IN  /\ Len(BucketEntries(es, bucket, tz)) = Cardinality(inHours)
                 /\ \A i \in 1..Len(es) :
                      InBucket(HourOf(es[i].occurredAt, tz), bucket) <=> i \in inHours
                 /\ (analysis.kind = "patterns" /\ analysis[bucket] # None)
                      => analysis[bucket][1].entries = Cardinality(inHours)
                 /\ (\E i \in inHours : BrandsOf(<<es[i]>>) # <<>>)
                      => analysis.kind = "patterns" /\ analysis[bucket] # None
        /\ InHours("morning") \cup InHours("afternoon") \cup InHours("evening") = 1..Len(es)
        /\ InHours("morning") \cap InHours("afternoon") = {}
        /\ InHours("morning") \cap InHours("evening") = {}
        /\ InHours("afternoon") \cap InHours("evening") = {}

\* A New York request on a server eight hours east of UTC: an entry of 13:00
\* UTC is a morning entry (08:00), one of 23:00 UTC an evening entry, one
\* of 17:00 UTC an afternoon entry.
C23_Witness ==
  /\ prompt # None
  /\ prompt[1].timeZone = "America/New_York"
  /\ serverTz.offsetNow = 8
  /\ prompt[1].patternAnalysis.kind = "patterns"
  /\ \A bucket \in Buckets :
       /\ prompt[1].patternAnalysis[bucket] # None
       /\ prompt[1].patternAnalysis[bucket][1].entries = 1

\* The entries of es whose index is in S, in order.
RECURSIVE Pick(_, _, _)
Pick(es, S, i) ==
  IF i > Len(es) THEN <<>>
  ELSE IF i \in S THEN <<es[i]>> \o Pick(es, S, i + 1)
  ELSE Pick(es, S, i + 1)
\* The sets of min(5, n) indices of es that hold entries with the latest
\* occurredAt: no entry left out is later than one taken.
LatestFive(es) ==
  {S \in SUBSET (1..Len(es)) :
     /\ Cardinality(S) = Min(Len(es), RecentDoses)
     /\ \A i \in S, j \in (1..Len(es)) \ S : es[j].occurredAt <= es[i].occurredAt}

\* C20: the dose-range line is the minimum, the maximum and the one-decimal
\* average of the parsable doses of the five insulin entries of the window
\* with the latest occurredAt (of all of them when they are fewer).
C20_DoseRangeOfLatestFive ==
  (prompt # None /\ WindowOfType("insulin") # <<>>) =>
    \E S \in LatestFive(WindowOfType("insulin")) :
      LET doses == ParsedDoses(Pick(WindowOfType("insulin"), S, 1))
          analysis == prompt[1].patternAnalysis
      IN  IF doses = <<>>
          THEN analysis.kind = "patterns" => analysis.doseRange = None
          ELSE /\ analysis.kind = "patterns"
               /\ analysis.doseRange # None
               /\ analysis.doseRange[1].min = MinOf(doses)
               /\ analysis.doseRange[1].max = MaxOf(doses)
               /\ analysis.doseRange[1].average = ToFixed1(Sum(doses), Len(doses))

====
